---------------------------- MODULE Spec2Model ----------------------------
(***************************************************************************)
(* LangHire: skill matcher (src/src/analyzer/skill_matcher.py), scoring    *)
(* engine (src/src/analyzer/scoring_engine.py), threshold configuration    *)
(* (src/config.py) and the Streamlit script that drives them (src/app.py). *)
(*                                                                         *)
(* Conventions                                                             *)
(*  - A Python number is a record [t |-> "num", neg, m, e]: the double    *)
(*    (-1)^neg x m x 2^e, and every operation on numbers is rounded as     *)
(*    CPython rounds it.  A value that is not a number is                  *)
(*    [t |-> "str", ...] or [t |-> "none", ...]; a key that a dict does    *)
(*    not hold is [t |-> "absent", ...].                                   *)
(*  - A Python dict keyed by category is a function whose DOMAIN is the    *)
(*    set of keys; a Python list is a sequence; set(list) is its range.    *)
(*  - list(a_set) has no specified order: the lists the matcher builds     *)
(*    from sets are kept as sets (only len() and membership are used).     *)
(***************************************************************************)
EXTENDS Integers, Sequences, FiniteSets, TLC

VARIABLES
    subject,            \* component exercised: "matcher", "engine", "app", "text"
                        \* or "request"
    op,                 \* name of the operation applied last ("init" before any)
    candidate_skills,   \* argument of calculate_skill_match_score
    required_skills,    \* argument of calculate_skill_match_score
    match_result,       \* value returned by calculate_skill_match_score
    matcher,            \* the SkillMatcher instance
    Config,             \* class attributes of Config (process-wide)
    engine,             \* the ScoringEngine instance
    args,               \* arguments of the last call of a ScoringEngine method
    result,             \* value returned by that call
    request,            \* what run_analysis holds between its calls; under
                        \* SpecApp, what the run of the script of every
                        \* session holds while it waits
    session_state,      \* st.session_state of every browser session
    widgets             \* slider values Streamlit holds for every session

vars == <<subject, op, candidate_skills, required_skills, match_result,
          matcher, Config, engine, args, result, request, session_state,
          widgets>>

---------------------------------------------------------------------------
(* Python numbers.  An int or a float is held as the value it stands for, *)
(* (-1)^neg x m x 2^e with m odd (m = 0, e = 0, neg = FALSE for zero), so  *)
(* equal numbers are equal records.  m is a natural number of any size,    *)
(* written as its digits in base 32768, the lowest first.  An operation    *)
(* returns the double nearest the exact result, ties to the even mantissa  *)
(* (IEEE 754 binary64, CPython's float); the ints of the program are small *)
(* enough for the same operation on two ints to be exact.                  *)

\* operation applied to x and y.  On numbers:
\*   "+" "-" "*"  x + y, x - y, x * y
\*   "/"          x / y, for y an int below 65536 times a power of two
\*   "cmp"        -1, 0 or 1 as x < y, x = y or x > y
\*   "round"      round(x, y) for an integer y >= 0: the decimal with y
\*                places nearest the value of x, ties to the even one, then
\*                the double nearest that decimal
\* The other operations are the steps of these, on the digits of mantissas.
RECURSIVE Float(_, _, _)
Float(operation, x, y) ==
    LET B == 32768
        Limb(a, i) == IF i <= Len(a) THEN a[i] ELSE 0
        Low(a, b) == IF a < b THEN a ELSE b
        Shifted(a, limbs) == IF a = <<>> THEN a ELSE [i \in 1..limbs |-> 0] \o a
        Zero == [t |-> "num", neg |-> FALSE, m |-> <<>>, e |-> 0]
    IN  CASE
        \* ---- natural numbers as digits: x and y hold the operands ----
        \* the digits of a + b from digit y[1] on, with carry y[2]; x = <<a, b>>
           operation = "plus" ->
             IF y[1] > Len(x[1]) /\ y[1] > Len(x[2])
             THEN IF y[2] = 0 THEN <<>> ELSE <<y[2]>>
             ELSE <<(Limb(x[1], y[1]) + Limb(x[2], y[1]) + y[2]) % B>>
                  \o Float("plus", x,
                           <<y[1] + 1,
                             (Limb(x[1], y[1]) + Limb(x[2], y[1]) + y[2]) \div B>>)
        \* the digits of a - b (a >= b) from digit y[1] on, with borrow y[2]
        [] operation = "minus" ->
             IF y[1] > Len(x[1]) THEN <<>>
             ELSE <<(Limb(x[1], y[1]) - Limb(x[2], y[1]) - y[2] + B) % B>>
                  \o Float("minus", x,
                           <<y[1] + 1,
                             IF Limb(x[1], y[1]) - Limb(x[2], y[1]) - y[2] < 0
                             THEN 1 ELSE 0>>)
        \* the digits of a x s (s <= B) from digit y[1] on, with carry y[2];
        \* x = <<a, s>>
        [] operation = "times_int" ->
             IF y[1] > Len(x[1]) THEN Float("of_int", y[2], 0)
             ELSE <<(x[1][y[1]] * x[2] + y[2]) % B>>
                  \o Float("times_int", x,
                           <<y[1] + 1, (x[1][y[1]] * x[2] + y[2]) \div B>>)
        \* a divided by s < 2 B, from digit y[1] down to the first with
        \* remainder y[2] carried in: [q |-> the digits, r |-> what is left]
        [] operation = "div" ->
             IF y[1] = 0 THEN [q |-> <<>>, r |-> y[2]]
             ELSE Float("div_step",
                        Float("div", x,
                              <<y[1] - 1, (y[2] * B + x[1][y[1]]) % x[2]>>),
                        (y[2] * B + x[1][y[1]]) \div x[2])
        [] operation = "div_step" -> [q |-> x.q \o <<y>>, r |-> x.r]
        \* x without its leading zero digits
        [] operation = "trim" ->
             IF x = <<>> THEN x
             ELSE IF x[Len(x)] = 0 THEN Float("trim", SubSeq(x, 1, Len(x) - 1), 0)
             ELSE x
        [] operation = "of_int" ->
             IF x = 0 THEN <<>> ELSE <<x % B>> \o Float("of_int", x \div B, 0)
        \* -1, 0 or 1 as a < b, a = b or a > b, x = <<a, b>> of one length,
        \* from digit y down
        [] operation = "compare_at" ->
             IF y = 0 THEN 0
             ELSE IF x[1][y] < x[2][y] THEN -1
             ELSE IF x[1][y] > x[2][y] THEN 1
             ELSE Float("compare_at", x, y - 1)
        [] operation = "compare" ->
             IF Len(x[1]) < Len(x[2]) THEN -1
             ELSE IF Len(x[1]) > Len(x[2]) THEN 1
             ELSE Float("compare_at", x, Len(x[1]))
        [] operation = "sum" -> Float("plus", <<x, y>>, <<1, 0>>)
        [] operation = "difference" ->
             Float("trim", Float("minus", <<x, y>>, <<1, 0>>), 0)
        [] operation = "product_int" ->
             Float("trim", Float("times_int", <<x, y>>, <<1, 0>>), 0)
        \* a x b from digit y of b on, x = <<a, b>>
        [] operation = "times" ->
             IF y > Len(x[2]) THEN <<>>
             ELSE Float("sum", Float("product_int", x[1], x[2][y]),
                        Shifted(Float("times", x, y + 1), 1))
        [] operation = "quotient" ->
             Float("trim", Float("div", <<x, y>>, <<Len(x), 0>>).q, 0)
        \* x x 2^y and floor(x / 2^y)
        [] operation = "shl" ->
             IF y % 15 = 0 THEN Shifted(x, y \div 15)
             ELSE Shifted(Float("product_int", x, 2 ^ (y % 15)), y \div 15)
        [] operation = "shr" ->
             IF y \div 15 >= Len(x) THEN <<>>
             ELSE IF y % 15 = 0 THEN SubSeq(x, y \div 15 + 1, Len(x))
             ELSE Float("quotient", SubSeq(x, y \div 15 + 1, Len(x)), 2 ^ (y % 15))
        \* the number of binary digits of the integer x, of the digits x
        [] operation = "int_bits" ->
             IF x = 0 THEN 0 ELSE 1 + Float("int_bits", x \div 2, 0)
        [] operation = "bits" ->
             IF x = <<>> THEN 0
             ELSE 15 * (Len(x) - 1) + Float("int_bits", x[Len(x)], 0)
        \* the number of zero binary digits that end the integer x # 0, the
        \* digits x # <<>> from digit y on
        [] operation = "int_zeros" ->
             IF x % 2 = 1 THEN 0 ELSE 1 + Float("int_zeros", x \div 2, 0)
        [] operation = "zeros" ->
             IF x[y] = 0 THEN 15 + Float("zeros", x, y + 1)
             ELSE Float("int_zeros", x[y], 0)
        \* x / 2^y (x # 0, y > 0) moved to the nearest integer, ties to even:
        \* what is left of the division is one half or more when binary
        \* digit y of x is 1, and one half when the digits below are zeros;
        \* then x = floor(x / 2^y) and y tells whether it is moved up
        [] operation = "nearest" ->
             Float("nearest_by", Float("shr", x, y),
                   /\ (Limb(x, (y - 1) \div 15 + 1) \div 2 ^ ((y - 1) % 15)) % 2 = 1
                   /\ \/ Float("zeros", x, 1) < y - 1
                      \/ (Limb(x, y \div 15 + 1) \div 2 ^ (y % 15)) % 2 = 1)
        [] operation = "nearest_by" -> IF y THEN Float("sum", x, <<1>>) ELSE x
        \* ---- doubles: x = <<neg, m, e>> stands for (-1)^neg x m x 2^e ----
        \* the number itself, m of any parity (y = the zero bits that end m)
        [] operation = "number" ->
             IF x[2] = <<>> THEN Zero
             ELSE Float("number_by", x, Float("zeros", x[2], 1))
        [] operation = "number_by" ->
             [t |-> "num", neg |-> x[1], m |-> Float("shr", x[2], y),
              e |-> x[3] + y]
        \* the double nearest it (y = the binary digits of m)
        [] operation = "rounded" ->
             Float("rounded_by", x, Float("bits", x[2], 0))
        [] operation = "rounded_by" ->
             IF y <= 53 THEN Float("number", x, 0)
             ELSE Float("number",
                        <<x[1], Float("nearest", x[2], y - 53), x[3] + y - 53>>, 0)
        \* the double nearest (-1)^neg x a x 2^e / y, for an integer
        \* y < 65536: 58 or more binary digits of the quotient and a last
        \* one that tells whether anything is left
        [] operation = "over" ->
             LET shift == 57 + Float("int_bits", y, 0)
             IN  Float("over_at", <<x[1], x[3] - shift - 1, y>>,
                       Float("shl", x[2], shift))
        [] operation = "over_at" ->
             Float("over_by", <<x[1], x[2]>>,
                   Float("div", <<y, x[3]>>, <<Len(y), 0>>))
        [] operation = "over_by" ->
             Float("rounded",
                   <<x[1],
                     Float("sum", Float("shl", Float("trim", y.q, 0), 1),
                           IF y.r = 0 THEN <<>> ELSE <<1>>),
                     x[2]>>, 0)
        \* the double nearest x[1] + x[2], the sign of x[2] taken from x[3]:
        \* then x = <<sign of x[1], sign, the two mantissas over the exponent
        \* y>>
        [] operation = "add" ->
             Float("add_by",
                   <<x[1].neg, x[3], Float("shl", x[1].m, x[1].e - y),
                     Float("shl", x[2].m, x[2].e - y)>>, y)
        [] operation = "add_by" ->
             IF x[1] = x[2]
             THEN Float("rounded", <<x[1], Float("sum", x[3], x[4]), y>>, 0)
             ELSE IF Float("compare", <<x[3], x[4]>>, 0) >= 0
                  THEN Float("rounded",
                             <<x[1], Float("difference", x[3], x[4]), y>>, 0)
                  ELSE Float("rounded",
                             <<x[2], Float("difference", x[4], x[3]), y>>, 0)
        \* ---- the operations of the program, on numbers ----
        [] operation = "+" -> Float("add", <<x, y, y.neg>>, Low(x.e, y.e))
        [] operation = "-" -> Float("add", <<x, y, ~y.neg>>, Low(x.e, y.e))
        [] operation = "*" ->
             Float("rounded",
                   <<x.neg # y.neg,
                     Float("trim", Float("times", <<x.m, y.m>>, 1), 0),
                     x.e + y.e>>, 0)
        [] operation = "/" ->
             Float("over", <<x.neg # y.neg, x.m, x.e - y.e>>,
                   Limb(y.m, 1) + B * Limb(y.m, 2))
        [] operation = "cmp" ->
             IF x.neg # y.neg THEN (IF x.neg THEN -1 ELSE 1)
             ELSE (IF x.neg THEN -1 ELSE 1)
                  * Float("compare",
                          <<Float("shl", x.m, x.e - Low(x.e, y.e)),
                            Float("shl", y.m, y.e - Low(x.e, y.e))>>, 0)
        \* |x| x 10^y moved to the nearest integer, ties to even, then
        \* divided by 10^y
        [] operation = "round" ->
             Float("over",
                   <<x.neg,
                     IF x.e >= 0
                     THEN Float("shl", Float("product_int", x.m, 10 ^ y), x.e)
                     ELSE Float("nearest", Float("product_int", x.m, 10 ^ y),
                                -x.e),
                     0>>, 10 ^ y)

NotNum(tag) == [t |-> tag, neg |-> FALSE, m |-> <<>>, e |-> 0]

IsNum(x) == x.t = "num"

\* the number of the int n (-2^31 < n < 2^31): n = k x 2^e with k odd
PyInt(n) ==
    LET RECURSIVE Odd(_, _)
        Odd(k, e) ==
            IF k % 2 = 0 THEN Odd(k \div 2, e + 1)
            ELSE [t |-> "num", neg |-> n < 0,
                  m |-> IF k < 32768 THEN <<k>>
                        ELSE IF k < 32768 * 32768
                             THEN <<k % 32768, k \div 32768>>
                             ELSE <<k % 32768, (k \div 32768) % 32768,
                                    k \div (32768 * 32768)>>,
                  e |-> e]
    IN  IF n = 0 THEN [t |-> "num", neg |-> FALSE, m |-> <<>>, e |-> 0]
        ELSE Odd(IF n < 0 THEN -n ELSE n, 0)

Add(x, y) == Float("+", x, y)
Sub(x, y) == Float("-", x, y)
Mul(x, y) == Float("*", x, y)
Div(x, y) == Float("/", x, y)
Lt(x, y)  == Float("cmp", x, y) < 0
Le(x, y)  == Float("cmp", x, y) <= 0
Ge(x, y)  == Le(y, x)
Gt(x, y)  == Lt(y, x)
\* min(x, y) that returns x whatever y is
Uncapped(x, y) == x

Min(x, y) == IF Lt(y, x) THEN y ELSE x       \* Python min(x, y)
Max(x, y) == IF Gt(y, x) THEN y ELSE x       \* Python max(x, y)

\* the float literals of the scoring engine (its weights), which Python
\* evaluates once, when it compiles the module
Literals ==
    [l \in {<<35, 100>>, <<30, 100>>, <<15, 100>>, <<10, 100>>,
            <<4, 10>>, <<3, 10>>, <<2, 10>>, <<1, 10>>} |->
        Div(PyInt(l[1]), PyInt(l[2]))]

\* the float literal n/d of the source: the double nearest n / d
Num(n, d) ==
    IF <<n, d>> \in DOMAIN Literals THEN Literals[<<n, d>>]
    ELSE Div(PyInt(n), PyInt(d))

\* count / total * 100
Share(count, total) == Mul(Div(PyInt(count), PyInt(total)), PyInt(100))

\* Python round(x, 2)
Round2(x) == Float("round", x, 2)

---------------------------------------------------------------------------
(* Python containers *)

SetOf(list) == {list[i] : i \in DOMAIN list}          \* set(list)

EmptyDict == [k \in {} |-> {}]

DictGet(dict, key, default) ==                          \* dict.get(key, default)
    IF key \in DOMAIN dict THEN dict[key] ELSE default

DictSet(dict, key, value) ==                            \* dict[key] = value
    [k \in DOMAIN dict \cup {key} |-> IF k = key THEN value ELSE dict[k]]

RECURSIVE SumLen(_, _)
\* sum(len(v) for v in dict.values()) over the keys in keys
SumLen(dict, keys) ==
    IF keys = {} THEN 0
    ELSE LET k == CHOOSE x \in keys : TRUE
         IN  Cardinality(dict[k]) + SumLen(dict, keys \ {k})

(* Python strings: a str is the sequence of its characters.  A character   *)
(* is the one-character string that holds it; a character that cannot be  *)
(* written in a string of TLA+, the backtick chr(96) and every character  *)
(* beyond chr(255), is the string of its name: "U+" and the hexadecimal   *)
(* digits of its code point, four at least ("U+0060", "U+1680").          *)

\* the character database of the Python build (Unicode 14) beyond chr(255),
\* as code points, every table one sequence of numbers: the ranges of
\* white space (first, last, first, last, ...), the zero of every run of
\* ten decimal digits, the ranges str.isdigit() and regex \w take, the
\* runs (first, last, step, distance, ...) of characters that str.lower()
\* moves by a distance, and for the final-sigma rule of str.lower() the
\* ranges of characters that are case-ignorable and of those that are
\* cased and not case-ignorable
Unicode ==
    [space |-> <<
        5760, 5760, 8192, 8202, 8232, 8233, 8239, 8239, 8287, 8287, 12288,
        12288>>,
     zero |-> <<
        1632, 1776, 1984, 2406, 2534, 2662, 2790, 2918, 3046, 3174, 3302,
        3430, 3558, 3664, 3792, 3872, 4160, 4240, 6112, 6160, 6470, 6608,
        6784, 6800, 6992, 7088, 7232, 7248, 42528, 43216, 43264, 43472,
        43504, 43600, 44016, 65296, 66720, 68912, 69734, 69872, 69942,
        70096, 70384, 70736, 70864, 71248, 71360, 71472, 71904, 72016,
        72784, 73040, 73120, 92768, 92864, 93008, 120782, 120792, 120802,
        120812, 120822, 123200, 123632, 125264, 130032>>,
     digit |-> <<
        1632, 1641, 1776, 1785, 1984, 1993, 2406, 2415, 2534, 2543, 2662,
        2671, 2790, 2799, 2918, 2927, 3046, 3055, 3174, 3183, 3302, 3311,
        3430, 3439, 3558, 3567, 3664, 3673, 3792, 3801, 3872, 3881, 4160,
        4169, 4240, 4249, 4969, 4977, 6112, 6121, 6160, 6169, 6470, 6479,
        6608, 6618, 6784, 6793, 6800, 6809, 6992, 7001, 7088, 7097, 7232,
        7241, 7248, 7257, 8304, 8304, 8308, 8313, 8320, 8329, 9312, 9320,
        9332, 9340, 9352, 9360, 9450, 9450, 9461, 9469, 9471, 9471, 10102,
        10110, 10112, 10120, 10122, 10130, 42528, 42537, 43216, 43225,
        43264, 43273, 43472, 43481, 43504, 43513, 43600, 43609, 44016,
        44025, 65296, 65305, 66720, 66729, 68160, 68163, 68912, 68921,
        69216, 69224, 69714, 69722, 69734, 69743, 69872, 69881, 69942,
        69951, 70096, 70105, 70384, 70393, 70736, 70745, 70864, 70873,
        71248, 71257, 71360, 71369, 71472, 71481, 71904, 71913, 72016,
        72025, 72784, 72793, 73040, 73049, 73120, 73129, 92768, 92777,
        92864, 92873, 93008, 93017, 120782, 120831, 123200, 123209, 123632,
        123641, 125264, 125273, 127232, 127242, 130032, 130041>>,
     word |-> <<
        256, 705, 710, 721, 736, 740, 748, 748, 750, 750, 880, 884, 886,
        887, 890, 893, 895, 895, 902, 902, 904, 906, 908, 908, 910, 929,
        931, 1013, 1015, 1153, 1162, 1327, 1329, 1366, 1369, 1369, 1376,
        1416, 1488, 1514, 1519, 1522, 1568, 1610, 1632, 1641, 1646, 1647,
        1649, 1747, 1749, 1749, 1765, 1766, 1774, 1788, 1791, 1791, 1808,
        1808, 1810, 1839, 1869, 1957, 1969, 1969, 1984, 2026, 2036, 2037,
        2042, 2042, 2048, 2069, 2074, 2074, 2084, 2084, 2088, 2088, 2112,
        2136, 2144, 2154, 2160, 2183, 2185, 2190, 2208, 2249, 2308, 2361,
        2365, 2365, 2384, 2384, 2392, 2401, 2406, 2415, 2417, 2432, 2437,
        2444, 2447, 2448, 2451, 2472, 2474, 2480, 2482, 2482, 2486, 2489,
        2493, 2493, 2510, 2510, 2524, 2525, 2527, 2529, 2534, 2545, 2548,
        2553, 2556, 2556, 2565, 2570, 2575, 2576, 2579, 2600, 2602, 2608,
        2610, 2611, 2613, 2614, 2616, 2617, 2649, 2652, 2654, 2654, 2662,
        2671, 2674, 2676, 2693, 2701, 2703, 2705, 2707, 2728, 2730, 2736,
        2738, 2739, 2741, 2745, 2749, 2749, 2768, 2768, 2784, 2785, 2790,
        2799, 2809, 2809, 2821, 2828, 2831, 2832, 2835, 2856, 2858, 2864,
        2866, 2867, 2869, 2873, 2877, 2877, 2908, 2909, 2911, 2913, 2918,
        2927, 2929, 2935, 2947, 2947, 2949, 2954, 2958, 2960, 2962, 2965,
        2969, 2970, 2972, 2972, 2974, 2975, 2979, 2980, 2984, 2986, 2990,
        3001, 3024, 3024, 3046, 3058, 3077, 3084, 3086, 3088, 3090, 3112,
        3114, 3129, 3133, 3133, 3160, 3162, 3165, 3165, 3168, 3169, 3174,
        3183, 3192, 3198, 3200, 3200, 3205, 3212, 3214, 3216, 3218, 3240,
        3242, 3251, 3253, 3257, 3261, 3261, 3293, 3294, 3296, 3297, 3302,
        3311, 3313, 3314, 3332, 3340, 3342, 3344, 3346, 3386, 3389, 3389,
        3406, 3406, 3412, 3414, 3416, 3425, 3430, 3448, 3450, 3455, 3461,
        3478, 3482, 3505, 3507, 3515, 3517, 3517, 3520, 3526, 3558, 3567,
        3585, 3632, 3634, 3635, 3648, 3654, 3664, 3673, 3713, 3714, 3716,
        3716, 3718, 3722, 3724, 3747, 3749, 3749, 3751, 3760, 3762, 3763,
        3773, 3773, 3776, 3780, 3782, 3782, 3792, 3801, 3804, 3807, 3840,
        3840, 3872, 3891, 3904, 3911, 3913, 3948, 3976, 3980, 4096, 4138,
        4159, 4169, 4176, 4181, 4186, 4189, 4193, 4193, 4197, 4198, 4206,
        4208, 4213, 4225, 4238, 4238, 4240, 4249, 4256, 4293, 4295, 4295,
        4301, 4301, 4304, 4346, 4348, 4680, 4682, 4685, 4688, 4694, 4696,
        4696, 4698, 4701, 4704, 4744, 4746, 4749, 4752, 4784, 4786, 4789,
        4792, 4798, 4800, 4800, 4802, 4805, 4808, 4822, 4824, 4880, 4882,
        4885, 4888, 4954, 4969, 4988, 4992, 5007, 5024, 5109, 5112, 5117,
        5121, 5740, 5743, 5759, 5761, 5786, 5792, 5866, 5870, 5880, 5888,
        5905, 5919, 5937, 5952, 5969, 5984, 5996, 5998, 6000, 6016, 6067,
        6103, 6103, 6108, 6108, 6112, 6121, 6128, 6137, 6160, 6169, 6176,
        6264, 6272, 6276, 6279, 6312, 6314, 6314, 6320, 6389, 6400, 6430,
        6470, 6509, 6512, 6516, 6528, 6571, 6576, 6601, 6608, 6618, 6656,
        6678, 6688, 6740, 6784, 6793, 6800, 6809, 6823, 6823, 6917, 6963,
        6981, 6988, 6992, 7001, 7043, 7072, 7086, 7141, 7168, 7203, 7232,
        7241, 7245, 7293, 7296, 7304, 7312, 7354, 7357, 7359, 7401, 7404,
        7406, 7411, 7413, 7414, 7418, 7418, 7424, 7615, 7680, 7957, 7960,
        7965, 7968, 8005, 8008, 8013, 8016, 8023, 8025, 8025, 8027, 8027,
        8029, 8029, 8031, 8061, 8064, 8116, 8118, 8124, 8126, 8126, 8130,
        8132, 8134, 8140, 8144, 8147, 8150, 8155, 8160, 8172, 8178, 8180,
        8182, 8188, 8304, 8305, 8308, 8313, 8319, 8329, 8336, 8348, 8450,
        8450, 8455, 8455, 8458, 8467, 8469, 8469, 8473, 8477, 8484, 8484,
        8486, 8486, 8488, 8488, 8490, 8493, 8495, 8505, 8508, 8511, 8517,
        8521, 8526, 8526, 8528, 8585, 9312, 9371, 9450, 9471, 10102, 10131,
        11264, 11492, 11499, 11502, 11506, 11507, 11517, 11517, 11520,
        11557, 11559, 11559, 11565, 11565, 11568, 11623, 11631, 11631,
        11648, 11670, 11680, 11686, 11688, 11694, 11696, 11702, 11704,
        11710, 11712, 11718, 11720, 11726, 11728, 11734, 11736, 11742,
        11823, 11823, 12293, 12295, 12321, 12329, 12337, 12341, 12344,
        12348, 12353, 12438, 12445, 12447, 12449, 12538, 12540, 12543,
        12549, 12591, 12593, 12686, 12690, 12693, 12704, 12735, 12784,
        12799, 12832, 12841, 12872, 12879, 12881, 12895, 12928, 12937,
        12977, 12991, 13312, 19903, 19968, 42124, 42192, 42237, 42240,
        42508, 42512, 42539, 42560, 42606, 42623, 42653, 42656, 42735,
        42775, 42783, 42786, 42888, 42891, 42954, 42960, 42961, 42963,
        42963, 42965, 42969, 42994, 43009, 43011, 43013, 43015, 43018,
        43020, 43042, 43056, 43061, 43072, 43123, 43138, 43187, 43216,
        43225, 43250, 43255, 43259, 43259, 43261, 43262, 43264, 43301,
        43312, 43334, 43360, 43388, 43396, 43442, 43471, 43481, 43488,
        43492, 43494, 43518, 43520, 43560, 43584, 43586, 43588, 43595,
        43600, 43609, 43616, 43638, 43642, 43642, 43646, 43695, 43697,
        43697, 43701, 43702, 43705, 43709, 43712, 43712, 43714, 43714,
        43739, 43741, 43744, 43754, 43762, 43764, 43777, 43782, 43785,
        43790, 43793, 43798, 43808, 43814, 43816, 43822, 43824, 43866,
        43868, 43881, 43888, 44002, 44016, 44025, 44032, 55203, 55216,
        55238, 55243, 55291, 63744, 64109, 64112, 64217, 64256, 64262,
        64275, 64279, 64285, 64285, 64287, 64296, 64298, 64310, 64312,
        64316, 64318, 64318, 64320, 64321, 64323, 64324, 64326, 64433,
        64467, 64829, 64848, 64911, 64914, 64967, 65008, 65019, 65136,
        65140, 65142, 65276, 65296, 65305, 65313, 65338, 65345, 65370,
        65382, 65470, 65474, 65479, 65482, 65487, 65490, 65495, 65498,
        65500, 65536, 65547, 65549, 65574, 65576, 65594, 65596, 65597,
        65599, 65613, 65616, 65629, 65664, 65786, 65799, 65843, 65856,
        65912, 65930, 65931, 66176, 66204, 66208, 66256, 66273, 66299,
        66304, 66339, 66349, 66378, 66384, 66421, 66432, 66461, 66464,
        66499, 66504, 66511, 66513, 66517, 66560, 66717, 66720, 66729,
        66736, 66771, 66776, 66811, 66816, 66855, 66864, 66915, 66928,
        66938, 66940, 66954, 66956, 66962, 66964, 66965, 66967, 66977,
        66979, 66993, 66995, 67001, 67003, 67004, 67072, 67382, 67392,
        67413, 67424, 67431, 67456, 67461, 67463, 67504, 67506, 67514,
        67584, 67589, 67592, 67592, 67594, 67637, 67639, 67640, 67644,
        67644, 67647, 67669, 67672, 67702, 67705, 67742, 67751, 67759,
        67808, 67826, 67828, 67829, 67835, 67867, 67872, 67897, 67968,
        68023, 68028, 68047, 68050, 68096, 68112, 68115, 68117, 68119,
        68121, 68149, 68160, 68168, 68192, 68222, 68224, 68255, 68288,
        68295, 68297, 68324, 68331, 68335, 68352, 68405, 68416, 68437,
        68440, 68466, 68472, 68497, 68521, 68527, 68608, 68680, 68736,
        68786, 68800, 68850, 68858, 68899, 68912, 68921, 69216, 69246,
        69248, 69289, 69296, 69297, 69376, 69415, 69424, 69445, 69457,
        69460, 69488, 69505, 69552, 69579, 69600, 69622, 69635, 69687,
        69714, 69743, 69745, 69746, 69749, 69749, 69763, 69807, 69840,
        69864, 69872, 69881, 69891, 69926, 69942, 69951, 69956, 69956,
        69959, 69959, 69968, 70002, 70006, 70006, 70019, 70066, 70081,
        70084, 70096, 70106, 70108, 70108, 70113, 70132, 70144, 70161,
        70163, 70187, 70272, 70278, 70280, 70280, 70282, 70285, 70287,
        70301, 70303, 70312, 70320, 70366, 70384, 70393, 70405, 70412,
        70415, 70416, 70419, 70440, 70442, 70448, 70450, 70451, 70453,
        70457, 70461, 70461, 70480, 70480, 70493, 70497, 70656, 70708,
        70727, 70730, 70736, 70745, 70751, 70753, 70784, 70831, 70852,
        70853, 70855, 70855, 70864, 70873, 71040, 71086, 71128, 71131,
        71168, 71215, 71236, 71236, 71248, 71257, 71296, 71338, 71352,
        71352, 71360, 71369, 71424, 71450, 71472, 71483, 71488, 71494,
        71680, 71723, 71840, 71922, 71935, 71942, 71945, 71945, 71948,
        71955, 71957, 71958, 71960, 71983, 71999, 71999, 72001, 72001,
        72016, 72025, 72096, 72103, 72106, 72144, 72161, 72161, 72163,
        72163, 72192, 72192, 72203, 72242, 72250, 72250, 72272, 72272,
        72284, 72329, 72349, 72349, 72368, 72440, 72704, 72712, 72714,
        72750, 72768, 72768, 72784, 72812, 72818, 72847, 72960, 72966,
        72968, 72969, 72971, 73008, 73030, 73030, 73040, 73049, 73056,
        73061, 73063, 73064, 73066, 73097, 73112, 73112, 73120, 73129,
        73440, 73458, 73648, 73648, 73664, 73684, 73728, 74649, 74752,
        74862, 74880, 75075, 77712, 77808, 77824, 78894, 82944, 83526,
        92160, 92728, 92736, 92766, 92768, 92777, 92784, 92862, 92864,
        92873, 92880, 92909, 92928, 92975, 92992, 92995, 93008, 93017,
        93019, 93025, 93027, 93047, 93053, 93071, 93760, 93846, 93952,
        94026, 94032, 94032, 94099, 94111, 94176, 94177, 94179, 94179,
        94208, 100343, 100352, 101589, 101632, 101640, 110576, 110579,
        110581, 110587, 110589, 110590, 110592, 110882, 110928, 110930,
        110948, 110951, 110960, 111355, 113664, 113770, 113776, 113788,
        113792, 113800, 113808, 113817, 119520, 119539, 119648, 119672,
        119808, 119892, 119894, 119964, 119966, 119967, 119970, 119970,
        119973, 119974, 119977, 119980, 119982, 119993, 119995, 119995,
        119997, 120003, 120005, 120069, 120071, 120074, 120077, 120084,
        120086, 120092, 120094, 120121, 120123, 120126, 120128, 120132,
        120134, 120134, 120138, 120144, 120146, 120485, 120488, 120512,
        120514, 120538, 120540, 120570, 120572, 120596, 120598, 120628,
        120630, 120654, 120656, 120686, 120688, 120712, 120714, 120744,
        120746, 120770, 120772, 120779, 120782, 120831, 122624, 122654,
        123136, 123180, 123191, 123197, 123200, 123209, 123214, 123214,
        123536, 123565, 123584, 123627, 123632, 123641, 124896, 124902,
        124904, 124907, 124909, 124910, 124912, 124926, 124928, 125124,
        125127, 125135, 125184, 125251, 125259, 125259, 125264, 125273,
        126065, 126123, 126125, 126127, 126129, 126132, 126209, 126253,
        126255, 126269, 126464, 126467, 126469, 126495, 126497, 126498,
        126500, 126500, 126503, 126503, 126505, 126514, 126516, 126519,
        126521, 126521, 126523, 126523, 126530, 126530, 126535, 126535,
        126537, 126537, 126539, 126539, 126541, 126543, 126545, 126546,
        126548, 126548, 126551, 126551, 126553, 126553, 126555, 126555,
        126557, 126557, 126559, 126559, 126561, 126562, 126564, 126564,
        126567, 126570, 126572, 126578, 126580, 126583, 126585, 126588,
        126590, 126590, 126592, 126601, 126603, 126619, 126625, 126627,
        126629, 126633, 126635, 126651, 127232, 127244, 130032, 130041,
        131072, 173791, 173824, 177976, 177984, 178205, 178208, 183969,
        183984, 191456, 194560, 195101, 196608, 201546>>,
     lower |-> <<
        256, 302, 2, 1, 306, 310, 2, 1, 313, 327, 2, 1, 330, 374, 2, 1, 377,
        381, 2, 1, 385, 385, 1, 210, 386, 388, 2, 1, 390, 390, 1, 206, 391,
        391, 1, 1, 393, 394, 1, 205, 395, 395, 1, 1, 398, 398, 1, 79, 399,
        399, 1, 202, 400, 400, 1, 203, 401, 401, 1, 1, 403, 403, 1, 205,
        404, 404, 1, 207, 406, 406, 1, 211, 407, 407, 1, 209, 408, 408, 1,
        1, 412, 412, 1, 211, 413, 413, 1, 213, 415, 415, 1, 214, 416, 420,
        2, 1, 422, 422, 1, 218, 423, 423, 1, 1, 425, 425, 1, 218, 428, 428,
        1, 1, 430, 430, 1, 218, 431, 431, 1, 1, 433, 434, 1, 217, 435, 437,
        2, 1, 439, 439, 1, 219, 440, 440, 1, 1, 444, 444, 1, 1, 452, 452, 1,
        2, 453, 453, 1, 1, 455, 455, 1, 2, 456, 456, 1, 1, 458, 458, 1, 2,
        459, 475, 2, 1, 478, 494, 2, 1, 497, 497, 1, 2, 498, 500, 2, 1, 502,
        502, 1, -97, 503, 503, 1, -56, 504, 542, 2, 1, 544, 544, 1, -130,
        546, 562, 2, 1, 570, 570, 1, 10795, 571, 571, 1, 1, 573, 573, 1,
        -163, 574, 574, 1, 10792, 577, 577, 1, 1, 579, 579, 1, -195, 580,
        580, 1, 69, 581, 581, 1, 71, 582, 590, 2, 1, 880, 882, 2, 1, 886,
        886, 1, 1, 895, 895, 1, 116, 902, 902, 1, 38, 904, 906, 1, 37, 908,
        908, 1, 64, 910, 911, 1, 63, 913, 929, 1, 32, 931, 939, 1, 32, 975,
        975, 1, 8, 984, 1006, 2, 1, 1012, 1012, 1, -60, 1015, 1015, 1, 1,
        1017, 1017, 1, -7, 1018, 1018, 1, 1, 1021, 1023, 1, -130, 1024,
        1039, 1, 80, 1040, 1071, 1, 32, 1120, 1152, 2, 1, 1162, 1214, 2, 1,
        1216, 1216, 1, 15, 1217, 1229, 2, 1, 1232, 1326, 2, 1, 1329, 1366,
        1, 48, 4256, 4293, 1, 7264, 4295, 4295, 1, 7264, 4301, 4301, 1,
        7264, 5024, 5103, 1, 38864, 5104, 5109, 1, 8, 7312, 7354, 1, -3008,
        7357, 7359, 1, -3008, 7680, 7828, 2, 1, 7840, 7934, 2, 1, 7944,
        7951, 1, -8, 7960, 7965, 1, -8, 7976, 7983, 1, -8, 7992, 7999, 1,
        -8, 8008, 8013, 1, -8, 8025, 8031, 2, -8, 8040, 8047, 1, -8, 8072,
        8079, 1, -8, 8088, 8095, 1, -8, 8104, 8111, 1, -8, 8120, 8121, 1,
        -8, 8122, 8123, 1, -74, 8124, 8124, 1, -9, 8136, 8139, 1, -86, 8140,
        8140, 1, -9, 8152, 8153, 1, -8, 8154, 8155, 1, -100, 8168, 8169, 1,
        -8, 8170, 8171, 1, -112, 8172, 8172, 1, -7, 8184, 8185, 1, -128,
        8186, 8187, 1, -126, 8188, 8188, 1, -9, 8486, 8486, 1, -7517, 8498,
        8498, 1, 28, 8544, 8559, 1, 16, 8579, 8579, 1, 1, 9398, 9423, 1, 26,
        11264, 11311, 1, 48, 11360, 11360, 1, 1, 11362, 11362, 1, -10743,
        11363, 11363, 1, -3814, 11364, 11364, 1, -10727, 11367, 11371, 2, 1,
        11373, 11373, 1, -10780, 11374, 11374, 1, -10749, 11375, 11375, 1,
        -10783, 11376, 11376, 1, -10782, 11378, 11378, 1, 1, 11381, 11381,
        1, 1, 11390, 11391, 1, -10815, 11392, 11490, 2, 1, 11499, 11501, 2,
        1, 11506, 11506, 1, 1, 42560, 42604, 2, 1, 42624, 42650, 2, 1,
        42786, 42798, 2, 1, 42802, 42862, 2, 1, 42873, 42875, 2, 1, 42877,
        42877, 1, -35332, 42878, 42886, 2, 1, 42891, 42891, 1, 1, 42893,
        42893, 1, -42280, 42896, 42898, 2, 1, 42902, 42920, 2, 1, 42922,
        42922, 1, -42308, 42923, 42923, 1, -42319, 42924, 42924, 1, -42315,
        42925, 42925, 1, -42305, 42926, 42926, 1, -42308, 42928, 42928, 1,
        -42258, 42929, 42929, 1, -42282, 42930, 42930, 1, -42261, 42931,
        42931, 1, 928, 42932, 42946, 2, 1, 42948, 42948, 1, -48, 42949,
        42949, 1, -42307, 42950, 42950, 1, -35384, 42951, 42953, 2, 1,
        42960, 42960, 1, 1, 42966, 42968, 2, 1, 42997, 42997, 1, 1, 65313,
        65338, 1, 32, 66560, 66599, 1, 40, 66736, 66771, 1, 40, 66928,
        66938, 1, 39, 66940, 66954, 1, 39, 66956, 66962, 1, 39, 66964,
        66965, 1, 39, 68736, 68786, 1, 64, 71840, 71871, 1, 32, 93760,
        93791, 1, 32, 125184, 125217, 1, 34>>,
     cased |-> <<
        256, 442, 444, 447, 452, 659, 661, 687, 880, 883, 886, 887, 891,
        893, 895, 895, 902, 902, 904, 906, 908, 908, 910, 929, 931, 1013,
        1015, 1153, 1162, 1327, 1329, 1366, 1376, 1416, 4256, 4293, 4295,
        4295, 4301, 4301, 4304, 4346, 4349, 4351, 5024, 5109, 5112, 5117,
        7296, 7304, 7312, 7354, 7357, 7359, 7424, 7467, 7531, 7543, 7545,
        7578, 7680, 7957, 7960, 7965, 7968, 8005, 8008, 8013, 8016, 8023,
        8025, 8025, 8027, 8027, 8029, 8029, 8031, 8061, 8064, 8116, 8118,
        8124, 8126, 8126, 8130, 8132, 8134, 8140, 8144, 8147, 8150, 8155,
        8160, 8172, 8178, 8180, 8182, 8188, 8450, 8450, 8455, 8455, 8458,
        8467, 8469, 8469, 8473, 8477, 8484, 8484, 8486, 8486, 8488, 8488,
        8490, 8493, 8495, 8500, 8505, 8505, 8508, 8511, 8517, 8521, 8526,
        8526, 8544, 8575, 8579, 8580, 9398, 9449, 11264, 11387, 11390,
        11492, 11499, 11502, 11506, 11507, 11520, 11557, 11559, 11559,
        11565, 11565, 42560, 42605, 42624, 42651, 42786, 42863, 42865,
        42887, 42891, 42894, 42896, 42954, 42960, 42961, 42963, 42963,
        42965, 42969, 42997, 42998, 43002, 43002, 43824, 43866, 43872,
        43880, 43888, 43967, 64256, 64262, 64275, 64279, 65313, 65338,
        65345, 65370, 66560, 66639, 66736, 66771, 66776, 66811, 66928,
        66938, 66940, 66954, 66956, 66962, 66964, 66965, 66967, 66977,
        66979, 66993, 66995, 67001, 67003, 67004, 68736, 68786, 68800,
        68850, 71840, 71903, 93760, 93823, 119808, 119892, 119894, 119964,
        119966, 119967, 119970, 119970, 119973, 119974, 119977, 119980,
        119982, 119993, 119995, 119995, 119997, 120003, 120005, 120069,
        120071, 120074, 120077, 120084, 120086, 120092, 120094, 120121,
        120123, 120126, 120128, 120132, 120134, 120134, 120138, 120144,
        120146, 120485, 120488, 120512, 120514, 120538, 120540, 120570,
        120572, 120596, 120598, 120628, 120630, 120654, 120656, 120686,
        120688, 120712, 120714, 120744, 120746, 120770, 120772, 120779,
        122624, 122633, 122635, 122654, 125184, 125251, 127280, 127305,
        127312, 127337, 127344, 127369>>,
     case_ignorable |-> <<
        688, 879, 884, 885, 890, 890, 900, 901, 903, 903, 1155, 1161, 1369,
        1369, 1375, 1375, 1425, 1469, 1471, 1471, 1473, 1474, 1476, 1477,
        1479, 1479, 1524, 1524, 1536, 1541, 1552, 1562, 1564, 1564, 1600,
        1600, 1611, 1631, 1648, 1648, 1750, 1757, 1759, 1768, 1770, 1773,
        1807, 1807, 1809, 1809, 1840, 1866, 1958, 1968, 2027, 2037, 2042,
        2042, 2045, 2045, 2070, 2093, 2137, 2139, 2184, 2184, 2192, 2193,
        2200, 2207, 2249, 2306, 2362, 2362, 2364, 2364, 2369, 2376, 2381,
        2381, 2385, 2391, 2402, 2403, 2417, 2417, 2433, 2433, 2492, 2492,
        2497, 2500, 2509, 2509, 2530, 2531, 2558, 2558, 2561, 2562, 2620,
        2620, 2625, 2626, 2631, 2632, 2635, 2637, 2641, 2641, 2672, 2673,
        2677, 2677, 2689, 2690, 2748, 2748, 2753, 2757, 2759, 2760, 2765,
        2765, 2786, 2787, 2810, 2815, 2817, 2817, 2876, 2876, 2879, 2879,
        2881, 2884, 2893, 2893, 2901, 2902, 2914, 2915, 2946, 2946, 3008,
        3008, 3021, 3021, 3072, 3072, 3076, 3076, 3132, 3132, 3134, 3136,
        3142, 3144, 3146, 3149, 3157, 3158, 3170, 3171, 3201, 3201, 3260,
        3260, 3263, 3263, 3270, 3270, 3276, 3277, 3298, 3299, 3328, 3329,
        3387, 3388, 3393, 3396, 3405, 3405, 3426, 3427, 3457, 3457, 3530,
        3530, 3538, 3540, 3542, 3542, 3633, 3633, 3636, 3642, 3654, 3662,
        3761, 3761, 3764, 3772, 3782, 3782, 3784, 3789, 3864, 3865, 3893,
        3893, 3895, 3895, 3897, 3897, 3953, 3966, 3968, 3972, 3974, 3975,
        3981, 3991, 3993, 4028, 4038, 4038, 4141, 4144, 4146, 4151, 4153,
        4154, 4157, 4158, 4184, 4185, 4190, 4192, 4209, 4212, 4226, 4226,
        4229, 4230, 4237, 4237, 4253, 4253, 4348, 4348, 4957, 4959, 5906,
        5908, 5938, 5939, 5970, 5971, 6002, 6003, 6068, 6069, 6071, 6077,
        6086, 6086, 6089, 6099, 6103, 6103, 6109, 6109, 6155, 6159, 6211,
        6211, 6277, 6278, 6313, 6313, 6432, 6434, 6439, 6440, 6450, 6450,
        6457, 6459, 6679, 6680, 6683, 6683, 6742, 6742, 6744, 6750, 6752,
        6752, 6754, 6754, 6757, 6764, 6771, 6780, 6783, 6783, 6823, 6823,
        6832, 6862, 6912, 6915, 6964, 6964, 6966, 6970, 6972, 6972, 6978,
        6978, 7019, 7027, 7040, 7041, 7074, 7077, 7080, 7081, 7083, 7085,
        7142, 7142, 7144, 7145, 7149, 7149, 7151, 7153, 7212, 7219, 7222,
        7223, 7288, 7293, 7376, 7378, 7380, 7392, 7394, 7400, 7405, 7405,
        7412, 7412, 7416, 7417, 7468, 7530, 7544, 7544, 7579, 7679, 8125,
        8125, 8127, 8129, 8141, 8143, 8157, 8159, 8173, 8175, 8189, 8190,
        8203, 8207, 8216, 8217, 8228, 8228, 8231, 8231, 8234, 8238, 8288,
        8292, 8294, 8303, 8305, 8305, 8319, 8319, 8336, 8348, 8400, 8432,
        11388, 11389, 11503, 11505, 11631, 11631, 11647, 11647, 11744,
        11775, 11823, 11823, 12293, 12293, 12330, 12333, 12337, 12341,
        12347, 12347, 12441, 12446, 12540, 12542, 40981, 40981, 42232,
        42237, 42508, 42508, 42607, 42610, 42612, 42621, 42623, 42623,
        42652, 42655, 42736, 42737, 42752, 42785, 42864, 42864, 42888,
        42890, 42994, 42996, 43000, 43001, 43010, 43010, 43014, 43014,
        43019, 43019, 43045, 43046, 43052, 43052, 43204, 43205, 43232,
        43249, 43263, 43263, 43302, 43309, 43335, 43345, 43392, 43394,
        43443, 43443, 43446, 43449, 43452, 43453, 43471, 43471, 43493,
        43494, 43561, 43566, 43569, 43570, 43573, 43574, 43587, 43587,
        43596, 43596, 43632, 43632, 43644, 43644, 43696, 43696, 43698,
        43700, 43703, 43704, 43710, 43711, 43713, 43713, 43741, 43741,
        43756, 43757, 43763, 43764, 43766, 43766, 43867, 43871, 43881,
        43883, 44005, 44005, 44008, 44008, 44013, 44013, 64286, 64286,
        64434, 64450, 65024, 65039, 65043, 65043, 65056, 65071, 65106,
        65106, 65109, 65109, 65279, 65279, 65287, 65287, 65294, 65294,
        65306, 65306, 65342, 65342, 65344, 65344, 65392, 65392, 65438,
        65439, 65507, 65507, 65529, 65531, 66045, 66045, 66272, 66272,
        66422, 66426, 67456, 67461, 67463, 67504, 67506, 67514, 68097,
        68099, 68101, 68102, 68108, 68111, 68152, 68154, 68159, 68159,
        68325, 68326, 68900, 68903, 69291, 69292, 69446, 69456, 69506,
        69509, 69633, 69633, 69688, 69702, 69744, 69744, 69747, 69748,
        69759, 69761, 69811, 69814, 69817, 69818, 69821, 69821, 69826,
        69826, 69837, 69837, 69888, 69890, 69927, 69931, 69933, 69940,
        70003, 70003, 70016, 70017, 70070, 70078, 70089, 70092, 70095,
        70095, 70191, 70193, 70196, 70196, 70198, 70199, 70206, 70206,
        70367, 70367, 70371, 70378, 70400, 70401, 70459, 70460, 70464,
        70464, 70502, 70508, 70512, 70516, 70712, 70719, 70722, 70724,
        70726, 70726, 70750, 70750, 70835, 70840, 70842, 70842, 70847,
        70848, 70850, 70851, 71090, 71093, 71100, 71101, 71103, 71104,
        71132, 71133, 71219, 71226, 71229, 71229, 71231, 71232, 71339,
        71339, 71341, 71341, 71344, 71349, 71351, 71351, 71453, 71455,
        71458, 71461, 71463, 71467, 71727, 71735, 71737, 71738, 71995,
        71996, 71998, 71998, 72003, 72003, 72148, 72151, 72154, 72155,
        72160, 72160, 72193, 72202, 72243, 72248, 72251, 72254, 72263,
        72263, 72273, 72278, 72281, 72283, 72330, 72342, 72344, 72345,
        72752, 72758, 72760, 72765, 72767, 72767, 72850, 72871, 72874,
        72880, 72882, 72883, 72885, 72886, 73009, 73014, 73018, 73018,
        73020, 73021, 73023, 73029, 73031, 73031, 73104, 73105, 73109,
        73109, 73111, 73111, 73459, 73460, 78896, 78904, 92912, 92916,
        92976, 92982, 92992, 92995, 94031, 94031, 94095, 94111, 94176,
        94177, 94179, 94180, 110576, 110579, 110581, 110587, 110589, 110590,
        113821, 113822, 113824, 113827, 118528, 118573, 118576, 118598,
        119143, 119145, 119155, 119170, 119173, 119179, 119210, 119213,
        119362, 119364, 121344, 121398, 121403, 121452, 121461, 121461,
        121476, 121476, 121499, 121503, 121505, 121519, 122880, 122886,
        122888, 122904, 122907, 122913, 122915, 122916, 122918, 122922,
        123184, 123197, 123566, 123566, 123628, 123631, 125136, 125142,
        125252, 125259, 127995, 127999, 917505, 917505, 917536, 917631,
        917760, 917999>>]

\* ord(c) of a character written by its name
RECURSIVE CodePoint(_)
CodePoint(c) ==
    IF c = "U+" THEN 0
    ELSE 16 * CodePoint(SubSeq(c, 1, Len(c) - 1))
         + (CHOOSE d \in 0..15 :
               SubSeq("0123456789ABCDEF", d + 1, d + 1)
                 = SubSeq(c, Len(c), Len(c)))

\* a character written by its name lies in one of the ranges of a table
InRanges(c, table) ==
    /\ Len(c) > 1
    /\ \E n \in {CodePoint(c)}, ranges \in {Unicode[table]} :
          \E k \in 1..(Len(ranges) \div 2) : /\ ranges[2 * k - 1] <= n
                                             /\ n <= ranges[2 * k]

\* the capitals of ASCII and of Latin-1 (chr(192) to chr(222) but chr(215),
\* the multiplication sign), and below each the letter str.lower() gives
UpperCase == <<"A","B","C","D","E","F","G","H","I","J","K","L","M",
               "N","O","P","Q","R","S","T","U","V","W","X","Y","Z",
               "À","Á","Â","Ã","Ä","Å","Æ","Ç","È","É",
               "Ê","Ë","Ì","Í","Î","Ï","Ð","Ñ","Ò","Ó",
               "Ô","Õ","Ö","Ø","Ù","Ú","Û","Ü","Ý","Þ">>

LowerCase == <<"a","b","c","d","e","f","g","h","i","j","k","l","m",
               "n","o","p","q","r","s","t","u","v","w","x","y","z",
               "à","á","â","ã","ä","å","æ","ç","è","é",
               "ê","ë","ì","í","î","ï","ð","ñ","ò","ó",
               "ô","õ","ö","ø","ù","ú","û","ü","ý","þ">>

\* the character str.lower() gives for c where it gives one character and
\* does not look at the neighbours of c.  Beyond chr(255) four capitals
\* have their small letter in Latin-1 and the others lie in a run of
\* Unicode.lower
LowerChar(c) ==
    LET RECURSIVE Name(_, _)
        \* the name of the character with code point v
        Name(v, digits) ==
            IF v = 0 /\ digits >= 4 THEN "U+"
            ELSE Name(v \div 16, digits + 1)
                 \o SubSeq("0123456789ABCDEF", (v % 16) + 1, (v % 16) + 1)
        \* the character of the run that holds the code point n, c if none
        Moved(n, lower) ==
            LET In(runs) ==
                    IF runs = {} THEN c
                    ELSE Name(n + lower[4 * (CHOOSE k \in runs : TRUE)], 0)
            IN  In({k \in 1..(Len(lower) \div 4) :
                       /\ lower[4 * k - 3] <= n
                       /\ n <= lower[4 * k - 2]
                       /\ (n - lower[4 * k - 3]) % lower[4 * k - 1] = 0})
    IN  IF Len(c) = 1
        THEN IF \E i \in DOMAIN UpperCase : UpperCase[i] = c
             THEN LowerCase[CHOOSE i \in DOMAIN UpperCase : UpperCase[i] = c]
             ELSE c
        ELSE CASE c = "U+0178" -> "ÿ"
               [] c = "U+1E9E" -> "ß"
               [] c = "U+212A" -> "k"
               [] c = "U+212B" -> "å"
               [] OTHER -> Moved(CodePoint(c), Unicode.lower)

\* str.lower().  Two characters are not lowered one by one: the capital I
\* with a dot, chr(0x130), gives "i" and the combining dot chr(0x307), and
\* the capital sigma chr(0x3a3) gives the final small sigma chr(0x3c2) when
\* the nearest character before it that is not case-ignorable is cased and
\* the nearest such character after it is not, the small sigma chr(0x3c3)
\* otherwise
Lower(text) ==
    LET Ignorable(c) ==
            \/ c \in {"'", ".", ":", "^", "U+0060",
                      "¨","­","¯","´","·","¸"}
            \/ InRanges(c, "case_ignorable")
        Cased(c) ==
            \/ \E i \in DOMAIN LowerCase : LowerCase[i] = c \/ UpperCase[i] = c
            \/ c \in {"ß","ÿ","ª","µ","º"}
            \/ InRanges(c, "cased")
        RECURSIVE Nearest(_, _)
        \* the nearest position from i on, forward or backward, of a
        \* character that is not case-ignorable; 0 if there is none
        Nearest(i, step) ==
            IF i \notin DOMAIN text THEN 0
            ELSE IF Ignorable(text[i]) THEN Nearest(i + step, step)
            ELSE i
        CasedAt(i) == i # 0 /\ Cased(text[i])
        Final(i) == CasedAt(Nearest(i - 1, -1)) /\ ~CasedAt(Nearest(i + 1, 1))
        LowerAt(i) ==
            CASE text[i] = "U+0130" -> <<"i", "U+0307">>
              [] text[i] = "U+03A3" ->
                    <<IF Final(i) THEN "U+03C2" ELSE "U+03C3">>
              [] OTHER -> <<LowerChar(text[i])>>
        RECURSIVE Join(_)
        Join(i) == IF i > Len(text) THEN <<>> ELSE LowerAt(i) \o Join(i + 1)
    IN  IF \A i \in DOMAIN text : Len(text[i]) = 1
        THEN [i \in DOMAIN text |-> LowerAt(i)[1]]
        ELSE Join(1)

Digits == <<"0","1","2","3","4","5","6","7","8","9">>

\* regex \d: a decimal digit of ASCII or of another script
IsDigit(c) ==
    \/ \E i \in DOMAIN Digits : Digits[i] = c
    \/ /\ Len(c) > 1
       /\ \E n \in {CodePoint(c)}, zero \in {Unicode.zero} :
             \E k \in DOMAIN zero : zero[k] <= n /\ n <= zero[k] + 9

\* the value int() gives the decimal digit c
DigitVal(c) ==
    IF Len(c) = 1 THEN (CHOOSE i \in DOMAIN Digits : Digits[i] = c) - 1
    ELSE LET Above(n, zero) ==
                 n - zero[CHOOSE k \in DOMAIN zero :
                             zero[k] <= n /\ n <= zero[k] + 9]
         IN  Above(CodePoint(c), Unicode.zero)

\* regex \s and str.strip(): white space.  After the five characters TLA+
\* has a name for come, written as themselves, the vertical tab chr(11),
\* the separators chr(28), chr(29), chr(30) and chr(31), the next-line
\* character chr(133) and the no-break space chr(160)
IsSpace(c) ==
    \/ c \in {" ", "\t", "\n", "\r", "\f",
             "","","","","",""," "}
    \/ InRanges(c, "space")

RECURSIVE ToInt(_)
ToInt(digits) ==                                                \* int(str)
    IF digits = <<>> THEN 0
    ELSE 10 * ToInt(SubSeq(digits, 1, Len(digits) - 1))
         + DigitVal(digits[Len(digits)])

\* str.isdigit(): the decimal digits, the superscripts chr(178), chr(179)
\* and chr(185), and beyond chr(255) the other characters of digit type
IsDigitStr(s) ==
    /\ s # <<>>
    /\ \A i \in DOMAIN s : \/ IsDigit(s[i])
                           \/ s[i] \in {"²","³","¹"}
                           \/ InRanges(s[i], "digit")

StartsAt(text, i, word) ==
    /\ i + Len(word) - 1 <= Len(text)
    /\ SubSeq(text, i, i + Len(word) - 1) = word

Contains(text, word) ==                                         \* word in text
    \E i \in 1..(Len(text) + 1) : StartsAt(text, i, word)

RECURSIVE SkipDigits(_, _)
\* first position at or after i that holds no digit
SkipDigits(text, i) ==
    IF i <= Len(text) /\ IsDigit(text[i]) THEN SkipDigits(text, i + 1) ELSE i

RECURSIVE SkipSpaces(_, _)
\* first position at or after i that holds no white space
SkipSpaces(text, i) ==
    IF i <= Len(text) /\ IsSpace(text[i]) THEN SkipSpaces(text, i + 1) ELSE i

\* position after an optional character c at i
SkipOptional(text, i, c) ==
    IF i <= Len(text) /\ text[i] = c THEN i + 1 ELSE i

FourDigitsAt(text, i) ==
    /\ i + 3 <= Len(text)
    /\ \A k \in i..(i + 3) : IsDigit(text[k])

NoMatch == [ok |-> FALSE, groups |-> <<>>, end |-> 0]

\* re.match of r'(\d+)\+?\s*years?' at position i
MatchYears(text, i) ==
    IF ~(i <= Len(text) /\ IsDigit(text[i])) THEN NoMatch
    ELSE LET j == SkipDigits(text, i)
             k == SkipSpaces(text, SkipOptional(text, j, "+"))
         IN  IF StartsAt(text, k, <<"y","e","a","r">>)
             THEN [ok |-> TRUE, groups |-> <<SubSeq(text, i, j - 1)>>,
                   end |-> SkipOptional(text, k + 4, "s")]
             ELSE NoMatch

\* position after r'\s*-\s*' started at i, or 0 when there is no dash
SkipDash(text, i) ==
    LET k == SkipSpaces(text, i)
    IN  IF k <= Len(text) /\ text[k] = "-" THEN SkipSpaces(text, k + 1) ELSE 0

\* re.match of r'(\d{4})\s*-\s*(\d{4})' at position i
MatchRange(text, i) ==
    IF ~FourDigitsAt(text, i) THEN NoMatch
    ELSE LET k == SkipDash(text, i + 4)
         IN  IF k # 0 /\ FourDigitsAt(text, k)
             THEN [ok |-> TRUE,
                   groups |-> <<SubSeq(text, i, i + 3), SubSeq(text, k, k + 3)>>,
                   end |-> k + 4]
             ELSE NoMatch

\* re.match of r'(\d{4})\s*-\s*present' at position i
MatchPresent(text, i) ==
    IF ~FourDigitsAt(text, i) THEN NoMatch
    ELSE LET k == SkipDash(text, i + 4)
         IN  IF k # 0 /\ StartsAt(text, k, <<"p","r","e","s","e","n","t">>)
             THEN [ok |-> TRUE, groups |-> <<SubSeq(text, i, i + 3)>>,
                   end |-> k + 7]
             ELSE NoMatch

MatchAt(pattern, text, i) ==
    CASE pattern = 1 -> MatchYears(text, i)
      [] pattern = 2 -> MatchRange(text, i)
      [] pattern = 3 -> MatchPresent(text, i)

RECURSIVE FindAll(_, _, _)
RECURSIVE FindNext(_, _, _, _)
\* re.findall(year_patterns[pattern], text) scanning from position i: the
\* groups of the non-overlapping matches, left to right.  A pattern with
\* one group yields strings, a pattern with two groups yields pairs.
FindAll(pattern, text, i) ==
    IF i > Len(text) THEN <<>>
    ELSE FindNext(pattern, text, i, MatchAt(pattern, text, i))

\* the scan goes on after the match m tried at position i
FindNext(pattern, text, i, m) ==
    IF m.ok
    THEN <<IF Len(m.groups) = 1 THEN m.groups[1] ELSE m.groups>>
         \o FindAll(pattern, text, m.end)
    ELSE FindAll(pattern, text, i + 1)

---------------------------------------------------------------------------
(* SkillMatcher.calculate_skill_match_score *)

\* the dict created at the top of calculate_skill_match_score
NewMatchResult ==
    [exact_matches   |-> EmptyDict,
     partial_matches |-> EmptyDict,
     missing_skills  |-> EmptyDict,
     category_scores |-> EmptyDict,
     overall_score   |-> PyInt(0),
     total_required  |-> 0,
     total_matched   |-> 0]

\* MatchCategory with len(list) in place of len(set(list)) for the required
\* skills: a repeated required skill is counted once per occurrence
MatchCategoryCountsDuplicates(acc, candidate, required, category) ==
    LET candidate_cat_skills == SetOf(DictGet(candidate, category, <<>>))
        required_cat_skills  == SetOf(DictGet(required, category, <<>>))
        required_count == Len(DictGet(required, category, <<>>))
        exact_matches  == candidate_cat_skills \cap required_cat_skills
        missing_skills == required_cat_skills \ candidate_cat_skills
    IN  IF required_cat_skills = {}
        THEN acc
        ELSE [acc EXCEPT
                !.exact_matches   = DictSet(@, category, exact_matches),
                !.missing_skills  = DictSet(@, category, missing_skills),
                !.category_scores = DictSet(@, category,
                    Share(Cardinality(exact_matches), required_count)),
                !.total_required  = @ + required_count,
                !.total_matched   = @ + Cardinality(exact_matches)]

\* MatchCategory scoring the share of missing skills instead of matched ones
MatchCategoryScoresMissing(acc, candidate, required, category) ==
    LET candidate_cat_skills == SetOf(DictGet(candidate, category, <<>>))
        required_cat_skills  == SetOf(DictGet(required, category, <<>>))
        exact_matches  == candidate_cat_skills \cap required_cat_skills
        missing_skills == required_cat_skills \ candidate_cat_skills
    IN  IF required_cat_skills = {}
        THEN acc
        ELSE [acc EXCEPT
                !.exact_matches   = DictSet(@, category, exact_matches),
                !.missing_skills  = DictSet(@, category, missing_skills),
                !.category_scores = DictSet(@, category,
                    Share(Cardinality(missing_skills), Cardinality(required_cat_skills))),
                !.total_required  = @ + Cardinality(required_cat_skills),
                !.total_matched   = @ + Cardinality(missing_skills)]

\* MatchCategory without "if not required_cat_skills: continue": a category
\* with nothing required is reported as fully matched
MatchCategoryNoSkip(acc, candidate, required, category) ==
    LET candidate_cat_skills == SetOf(DictGet(candidate, category, <<>>))
        required_cat_skills  == SetOf(DictGet(required, category, <<>>))
        exact_matches  == candidate_cat_skills \cap required_cat_skills
        missing_skills == required_cat_skills \ candidate_cat_skills
    IN  [acc EXCEPT
           !.exact_matches   = DictSet(@, category, exact_matches),
           !.missing_skills  = DictSet(@, category, missing_skills),
           !.category_scores = DictSet(@, category,
               IF required_cat_skills = {} THEN PyInt(100)
               ELSE Share(Cardinality(exact_matches), Cardinality(required_cat_skills))),
           !.total_required  = @ + Cardinality(required_cat_skills),
           !.total_matched   = @ + Cardinality(exact_matches)]

\* MatchCategory counting every candidate skill of the category as a match
MatchCategoryNoIntersection(acc, candidate, required, category) ==
    LET candidate_cat_skills == SetOf(DictGet(candidate, category, <<>>))
        required_cat_skills  == SetOf(DictGet(required, category, <<>>))
        exact_matches  == candidate_cat_skills
        missing_skills == required_cat_skills \ candidate_cat_skills
    IN  IF required_cat_skills = {}
        THEN acc
        ELSE [acc EXCEPT
                !.exact_matches   = DictSet(@, category, exact_matches),
                !.missing_skills  = DictSet(@, category, missing_skills),
                !.category_scores = DictSet(@, category,
                    Share(Cardinality(exact_matches), Cardinality(required_cat_skills))),
                !.total_required  = @ + Cardinality(required_cat_skills),
                !.total_matched   = @ + Cardinality(exact_matches)]

\* MatchCategory reporting every required skill as missing
MatchCategoryMissingAll(acc, candidate, required, category) ==
    LET candidate_cat_skills == SetOf(DictGet(candidate, category, <<>>))
        required_cat_skills  == SetOf(DictGet(required, category, <<>>))
        exact_matches  == candidate_cat_skills \cap required_cat_skills
        category_score ==
            Share(Cardinality(exact_matches), Cardinality(required_cat_skills))
    IN  IF required_cat_skills = {}
        THEN acc
        ELSE [acc EXCEPT
                !.exact_matches   = DictSet(@, category, exact_matches),
                !.missing_skills  = DictSet(@, category, required_cat_skills),
                !.category_scores = DictSet(@, category, category_score),
                !.total_required  = @ + Cardinality(required_cat_skills),
                !.total_matched   = @ + Cardinality(exact_matches)]

\* one iteration of "for category in set(candidate keys + required keys)"
MatchCategory(acc, candidate, required, category) ==
    LET candidate_cat_skills == SetOf(DictGet(candidate, category, <<>>))
        required_cat_skills  == SetOf(DictGet(required, category, <<>>))
        exact_matches  == candidate_cat_skills \cap required_cat_skills
        missing_skills == required_cat_skills \ candidate_cat_skills
        category_score ==
            Share(Cardinality(exact_matches), Cardinality(required_cat_skills))
    IN  IF required_cat_skills = {}
        THEN acc
        ELSE [acc EXCEPT
                !.exact_matches   = DictSet(@, category, exact_matches),
                !.missing_skills  = DictSet(@, category, missing_skills),
                !.category_scores = DictSet(@, category, category_score),
                !.total_required  = @ + Cardinality(required_cat_skills),
                !.total_matched   = @ + Cardinality(exact_matches)]

RECURSIVE MatchLoop(_, _, _, _)
MatchLoop(acc, candidate, required, categories) ==
    IF categories = {} THEN acc
    ELSE LET category == CHOOSE c \in categories : TRUE
         IN  MatchLoop(MatchCategory(acc, candidate, required, category),
                       candidate, required, categories \ {category})

\* calculate_skill_match_score with "if total_required_count > 1"
SkillMatchScoreOffByOne(candidate, required) ==
    LET looped == MatchLoop(NewMatchResult, candidate, required,
                            DOMAIN candidate \cup DOMAIN required)
    IN  IF looped.total_required > 1
        THEN [looped EXCEPT !.overall_score =
                 Share(looped.total_matched, looped.total_required)]
        ELSE looped

calculate_skill_match_score(candidate, required) ==
    LET looped == MatchLoop(NewMatchResult, candidate, required,
                            DOMAIN candidate \cup DOMAIN required)
    IN  IF looped.total_required > 0
        THEN [looped EXCEPT !.overall_score =
                 Share(looped.total_matched, looped.total_required)]
        ELSE looped

---------------------------------------------------------------------------
(* SkillMatcher: the taxonomy, and the skills found in a text *)

\* _load_skill_categories: the items of the dict, in order, every skill as
\* its characters
skill_categories ==
    << [category |-> "programming_languages",
        skills |->
          << <<"p","y","t","h","o","n">>,
             <<"j","a","v","a">>,
             <<"j","a","v","a","s","c","r","i","p","t">>,
             <<"t","y","p","e","s","c","r","i","p","t">>,
             <<"c","+","+">>,
             <<"c","#">>,
             <<"g","o">>,
             <<"r","u","s","t">>,
             <<"s","w","i","f","t">>,
             <<"k","o","t","l","i","n">>,
             <<"s","c","a","l","a">>,
             <<"r","u","b","y">>,
             <<"p","h","p">>,
             <<"r">>,
             <<"m","a","t","l","a","b">> >>],
       [category |-> "web_technologies",
        skills |->
          << <<"h","t","m","l">>,
             <<"c","s","s">>,
             <<"r","e","a","c","t">>,
             <<"a","n","g","u","l","a","r">>,
             <<"v","u","e">>,
             <<"n","o","d","e",".","j","s">>,
             <<"e","x","p","r","e","s","s">>,
             <<"d","j","a","n","g","o">>,
             <<"f","l","a","s","k">>,
             <<"s","p","r","i","n","g">>,
             <<"a","s","p",".","n","e","t">>,
             <<"l","a","r","a","v","e","l">>,
             <<"r","a","i","l","s">> >>],
       [category |-> "databases",
        skills |->
          << <<"m","y","s","q","l">>,
             <<"p","o","s","t","g","r","e","s","q","l">>,
             <<"m","o","n","g","o","d","b">>,
             <<"r","e","d","i","s">>,
             <<"e","l","a","s","t","i","c","s","e","a","r","c","h">>,
             <<"o","r","a","c","l","e">>,
             <<"s","q","l"," ","s","e","r","v","e","r">>,
             <<"s","q","l","i","t","e">>,
             <<"c","a","s","s","a","n","d","r","a">>,
             <<"d","y","n","a","m","o","d","b">> >>],
       [category |-> "cloud_platforms",
        skills |->
          << <<"a","w","s">>,
             <<"a","z","u","r","e">>,
             <<"g","c","p">>,
             <<"g","o","o","g","l","e"," ","c","l","o","u","d">>,
             <<"d","o","c","k","e","r">>,
             <<"k","u","b","e","r","n","e","t","e","s">>,
             <<"t","e","r","r","a","f","o","r","m">>,
             <<"a","n","s","i","b","l","e">>,
             <<"j","e","n","k","i","n","s">>,
             <<"g","i","t","l","a","b">>,
             <<"g","i","t","h","u","b"," ","a","c","t","i","o","n","s">> >>],
       [category |-> "data_science",
        skills |->
          << <<"p","a","n","d","a","s">>,
             <<"n","u","m","p","y">>,
             <<"s","c","i","k","i","t","-","l","e","a","r","n">>,
             <<"t","e","n","s","o","r","f","l","o","w">>,
             <<"p","y","t","o","r","c","h">>,
             <<"s","p","a","r","k">>,
             <<"h","a","d","o","o","p">>,
             <<"t","a","b","l","e","a","u">>,
             <<"p","o","w","e","r"," ","b","i">>,
             <<"j","u","p","y","t","e","r">> >>],
       [category |-> "soft_skills",
        skills |->
          << <<"l","e","a","d","e","r","s","h","i","p">>,
             <<"c","o","m","m","u","n","i","c","a","t","i","o","n">>,
             <<"p","r","o","b","l","e","m"," ","s","o","l","v","i","n","g">>,
             <<"t","e","a","m","w","o","r","k">>,
             <<"p","r","o","j","e","c","t"," ","m","a","n","a","g","e","m","e","n","t">>,
             <<"a","n","a","l","y","t","i","c","a","l"," ","t","h","i","n","k","i","n","g">>,
             <<"c","r","e","a","t","i","v","i","t","y">> >>] >>

\* _load_skill_synonyms: the items of the dict, in order
skill_synonyms ==
    << [main_skill |-> <<"j","a","v","a","s","c","r","i","p","t">>,
        synonyms |-> << <<"j","s">>, <<"n","o","d","e">>, <<"n","o","d","e","j","s">>, <<"n","o","d","e",".","j","s">> >>],
       [main_skill |-> <<"t","y","p","e","s","c","r","i","p","t">>,
        synonyms |-> << <<"t","s">> >>],
       [main_skill |-> <<"p","y","t","h","o","n">>,
        synonyms |-> << <<"p","y">> >>],
       [main_skill |-> <<"p","o","s","t","g","r","e","s","q","l">>,
        synonyms |-> << <<"p","o","s","t","g","r","e","s">>, <<"p","s","q","l">> >>],
       [main_skill |-> <<"m","o","n","g","o","d","b">>,
        synonyms |-> << <<"m","o","n","g","o">> >>],
       [main_skill |-> <<"k","u","b","e","r","n","e","t","e","s">>,
        synonyms |-> << <<"k","8","s">> >>],
       [main_skill |-> <<"a","m","a","z","o","n"," ","w","e","b"," ","s","e","r","v","i","c","e","s">>,
        synonyms |-> << <<"a","w","s">> >>],
       [main_skill |-> <<"g","o","o","g","l","e"," ","c","l","o","u","d"," ","p","l","a","t","f","o","r","m">>,
        synonyms |-> << <<"g","c","p">>, <<"g","o","o","g","l","e"," ","c","l","o","u","d">> >>],
       [main_skill |-> <<"m","i","c","r","o","s","o","f","t"," ","a","z","u","r","e">>,
        synonyms |-> << <<"a","z","u","r","e">> >>],
       [main_skill |-> <<"m","a","c","h","i","n","e"," ","l","e","a","r","n","i","n","g">>,
        synonyms |-> << <<"m","l">>, <<"a","r","t","i","f","i","c","i","a","l"," ","i","n","t","e","l","l","i","g","e","n","c","e">>, <<"a","i">> >>],
       [main_skill |-> <<"d","e","e","p"," ","l","e","a","r","n","i","n","g">>,
        synonyms |-> << <<"d","l">>, <<"n","e","u","r","a","l"," ","n","e","t","w","o","r","k","s">> >>],
       [main_skill |-> <<"n","a","t","u","r","a","l"," ","l","a","n","g","u","a","g","e"," ","p","r","o","c","e","s","s","i","n","g">>,
        synonyms |-> << <<"n","l","p">> >>],
       [main_skill |-> <<"c","o","m","p","u","t","e","r"," ","v","i","s","i","o","n">>,
        synonyms |-> << <<"c","v">> >>],
       [main_skill |-> <<"u","s","e","r"," ","i","n","t","e","r","f","a","c","e">>,
        synonyms |-> << <<"u","i">> >>],
       [main_skill |-> <<"u","s","e","r"," ","e","x","p","e","r","i","e","n","c","e">>,
        synonyms |-> << <<"u","x">> >>],
       [main_skill |-> <<"a","p","p","l","i","c","a","t","i","o","n"," ","p","r","o","g","r","a","m","m","i","n","g"," ","i","n","t","e","r","f","a","c","e">>,
        synonyms |-> << <<"a","p","i">>, <<"r","e","s","t"," ","a","p","i">>, <<"r","e","s","t","f","u","l">> >>],
       [main_skill |-> <<"s","t","r","u","c","t","u","r","e","d"," ","q","u","e","r","y"," ","l","a","n","g","u","a","g","e">>,
        synonyms |-> << <<"s","q","l">> >>],
       [main_skill |-> <<"n","o","s","q","l">>,
        synonyms |-> << <<"n","o","-","s","q","l">>, <<"d","o","c","u","m","e","n","t"," ","d","a","t","a","b","a","s","e">> >>],
       [main_skill |-> <<"c","o","n","t","i","n","u","o","u","s"," ","i","n","t","e","g","r","a","t","i","o","n">>,
        synonyms |-> << <<"c","i">>, <<"c","i","/","c","d">> >>],
       [main_skill |-> <<"c","o","n","t","i","n","u","o","u","s"," ","d","e","p","l","o","y","m","e","n","t">>,
        synonyms |-> << <<"c","d">> >>],
       [main_skill |-> <<"t","e","s","t"," ","d","r","i","v","e","n"," ","d","e","v","e","l","o","p","m","e","n","t">>,
        synonyms |-> << <<"t","d","d">> >>],
       [main_skill |-> <<"b","e","h","a","v","i","o","r"," ","d","r","i","v","e","n"," ","d","e","v","e","l","o","p","m","e","n","t">>,
        synonyms |-> << <<"b","d","d">> >>],
       [main_skill |-> <<"o","b","j","e","c","t"," ","o","r","i","e","n","t","e","d"," ","p","r","o","g","r","a","m","m","i","n","g">>,
        synonyms |-> << <<"o","o","p">> >>],
       [main_skill |-> <<"f","u","n","c","t","i","o","n","a","l"," ","p","r","o","g","r","a","m","m","i","n","g">>,
        synonyms |-> << <<"f","p">> >>] >>

\* chr(186), the superscripts and the fractions
IsWord(c) ==
    \/ IsDigit(c)
    \/ c = "_"
    \/ \E i \in DOMAIN LowerCase : LowerCase[i] = c \/ UpperCase[i] = c
    \/ c \in {"ß","ÿ","ª","µ","º","²","³","¹",
              "¼","½","¾"}
    \/ InRanges(c, "word")

\* _skill_mentioned as a substring test: skill.lower() in text
SkillContained(skill, text) == Contains(text, Lower(skill))

\* re.search(r'\b' + re.escape(skill.lower()) + r'\b', text)
_skill_mentioned(skill, text) ==
    LET word == Lower(skill)
        \* regex \b between positions i - 1 and i of text
        WordBoundary(i) ==
            (i > 1 /\ IsWord(text[i - 1])) # (i <= Len(text) /\ IsWord(text[i]))
    IN  \E i \in 1..(Len(text) - Len(word) + 1) :
            /\ StartsAt(text, i, word)
            /\ WordBoundary(i)
            /\ WordBoundary(i + Len(word))

\* SkillMatcher.__init__, lines 15-16: the two tables the extractor reads
NewSkillMatcher ==
    [skill_categories |-> skill_categories, skill_synonyms |-> skill_synonyms]

\* lines 141-142: the first category whose list holds main_skill, "" when
\* the loop finds none
OwnerOf(self, main_skill) ==
    LET owners == {i \in DOMAIN self.skill_categories :
                      main_skill \in SetOf(self.skill_categories[i].skills)}
    IN  IF owners = {} THEN ""
        ELSE self.skill_categories[
                 CHOOSE i \in owners : \A j \in owners : i <= j].category

\* RecordSkill without "if main_skill not in found_skills[category]"
RecordSkillAgain(self, found_skills, main_skill) ==
    IF OwnerOf(self, main_skill) = "" THEN found_skills
    ELSE DictSet(found_skills, OwnerOf(self, main_skill),
                 Append(DictGet(found_skills, OwnerOf(self, main_skill), <<>>),
                        main_skill))

\* lines 140-145: main_skill is listed under the category that owns it,
\* unless it is listed there already
RecordSkill(self, found_skills, main_skill) ==
    IF OwnerOf(self, main_skill) = "" THEN found_skills
    ELSE IF main_skill
              \in SetOf(DictGet(found_skills, OwnerOf(self, main_skill), <<>>))
         THEN found_skills
         ELSE DictSet(found_skills, OwnerOf(self, main_skill),
                      Append(DictGet(found_skills, OwnerOf(self, main_skill), <<>>),
                             main_skill))

RECURSIVE SynonymHits(_, _, _)
\* lines 137-139 for the entries of skill_synonyms from the k-th on:
\* main_skill once for every synonym of it that the text mentions, in the
\* order of the two loops
SynonymHits(self, text_lower, k) ==
    IF k > Len(self.skill_synonyms) THEN <<>>
    ELSE [j \in DOMAIN SelectSeq(self.skill_synonyms[k].synonyms,
                     LAMBDA synonym : _skill_mentioned(synonym, text_lower))
              |-> self.skill_synonyms[k].main_skill]
         \o SynonymHits(self, text_lower, k + 1)

RECURSIVE RecordSkills(_, _, _, _)
\* the body of the inner loop for the hits from the n-th on
RecordSkills(self, found_skills, hits, n) ==
    IF n > Len(hits) THEN found_skills
    ELSE RecordSkills(self, RecordSkill(self, found_skills, hits[n]), hits, n + 1)

\* the dict category -> list of skills that is returned
extract_skills_from_text(self, text) ==
    LET text_lower == Lower(text)
        \* lines 132-134 for the k-th category: the skills of its list that
        \* the text mentions, in the order of the list
        mentioned == [k \in DOMAIN self.skill_categories |->
                         SelectSeq(self.skill_categories[k].skills,
                             LAMBDA skill : _skill_mentioned(skill, text_lower))]
        \* found_skills after the first loop: a defaultdict(list) holds the
        \* keys that were appended to
        found_skills ==
            [category \in {self.skill_categories[k].category :
                             k \in {j \in DOMAIN self.skill_categories :
                                      mentioned[j] # <<>>}} |->
                mentioned[CHOOSE k \in DOMAIN self.skill_categories :
                             self.skill_categories[k].category = category]]
    IN  RecordSkills(self, found_skills, SynonymHits(self, text_lower, 1), 1)

---------------------------------------------------------------------------
(* SkillMatcher.normalize_skill *)

normalize_skill(skill) ==
    LET qualifiers ==
            << <<"e","x","p","e","r","t">>,
               <<"a","d","v","a","n","c","e","d">>,
               <<"p","r","o","f","i","c","i","e","n","t">>,
               <<"e","x","p","e","r","i","e","n","c","e","d">> >>
        \* the words (experience|skills?) matches
        suffixes ==
            << <<"e","x","p","e","r","i","e","n","c","e">>,
               <<"s","k","i","l","l">>,
               <<"s","k","i","l","l","s">> >>
        \* str.strip()
        Strip(s) ==
            LET kept == {i \in DOMAIN s : ~IsSpace(s[i])}
            IN  IF kept = {} THEN <<>>
                ELSE SubSeq(s, CHOOSE i \in kept : \A j \in kept : i <= j,
                               CHOOSE i \in kept : \A j \in kept : i >= j)
        \* first position of the white space that ends just before position
        \* i of s, not going below position low
        BackSpaces(s, i, low) ==
            CHOOSE b \in low..i :
                /\ \A k \in b..(i - 1) : IsSpace(s[k])
                /\ b = low \/ ~IsSpace(s[b - 1])
        \* re.sub(r'(^(expert|advanced|proficient|experienced)\s+)', '', s):
        \* the alternative that starts s with white space after it is
        \* removed together with that white space
        StripQualifier(s) ==
            LET found == {q \in DOMAIN qualifiers :
                            /\ StartsAt(s, 1, qualifiers[q])
                            /\ Len(s) > Len(qualifiers[q])
                            /\ IsSpace(s[Len(qualifiers[q]) + 1])}
            IN  IF found = {} THEN s
                ELSE SubSeq(s, SkipSpaces(s,
                                  Len(qualifiers[CHOOSE q \in found : TRUE]) + 1),
                            Len(s))
        \* re.sub(r'(\s+(experience|skills?)$)', '', s): the word that ends
        \* s with white space before it is removed together with that
        \* white space
        StripSuffix(s) ==
            LET found == {w \in DOMAIN suffixes :
                            /\ Len(s) > Len(suffixes[w])
                            /\ StartsAt(s, Len(s) - Len(suffixes[w]) + 1, suffixes[w])
                            /\ IsSpace(s[Len(s) - Len(suffixes[w])])}
            IN  IF found = {} THEN s
                ELSE SubSeq(s, 1,
                       BackSpaces(s, Len(s)
                                     - Len(suffixes[CHOOSE w \in found : TRUE]) + 1,
                                  1) - 1)
        \* first position at or after i of s that holds c, 0 when none does
        FindChar(s, i, c) ==
            IF \E p \in i..Len(s) : s[p] = c
            THEN CHOOSE p \in i..Len(s) :
                    s[p] = c /\ \A r \in i..(p - 1) : s[r] # c
            ELSE 0
        \* re.sub(r'\s*\([^)]*\)', '', s) on the part of s from position i:
        \* the next match starts with the white space before the first "("
        \* (position p) and ends with the first ")" after it (position q)
        RECURSIVE StripParens(_, _)
        StripParens(s, i) ==
            LET p == FindChar(s, i, "(")
                q == IF p = 0 THEN 0 ELSE FindChar(s, p + 1, ")")
            IN  IF q = 0 THEN SubSeq(s, i, Len(s))
                ELSE SubSeq(s, i, BackSpaces(s, p, i) - 1)
                     \o StripParens(s, q + 1)
        \* first position of the digits that end just before position i
        BackDigits(s, i) ==
            CHOOSE b \in 1..i :
                /\ \A k \in b..(i - 1) : IsDigit(s[k])
                /\ b = 1 \/ ~IsDigit(s[b - 1])
        \* re.sub(r'\s+\d+(\.\d+)?(\+)?$', '', s): e is the last position
        \* before an optional final "+", d the first of the digits that end
        \* there, n the first of the digits before a "." at d - 1; the number
        \* is removed together with the white space before it
        StripVersion(s) ==
            LET e == IF s # <<>> /\ s[Len(s)] = "+" THEN Len(s) - 1 ELSE Len(s)
                d == BackDigits(s, e + 1)
                n == IF d > 2 /\ s[d - 1] = "." THEN BackDigits(s, d - 1) ELSE d
                start == IF /\ d <= e
                            /\ n < d - 1
                            /\ n > 1
                            /\ IsSpace(s[n - 1])
                         THEN n ELSE d
            IN  IF d <= e /\ start > 1 /\ IsSpace(s[start - 1])
                THEN SubSeq(s, 1, BackSpaces(s, start, 1) - 1)
                ELSE s
    IN  Strip(StripVersion(StripParens(StripSuffix(StripQualifier(
            Strip(Lower(skill)))), 1)))

---------------------------------------------------------------------------
(* Values handed to the scoring engine                                     *)
(*  - a text field is [t |-> "str", s |-> characters], [t |-> "none"] for  *)
(*    None or [t |-> "absent"] for a key the dict does not hold;           *)
(*  - resume_data / jd_data are [shape |-> "dict", <field> |-> text, ...], *)
(*    or [shape |-> "nondict", ...] for a value without .get (None, list). *)

Str(chars) == [t |-> "str", s |-> chars]
NoneText   == [t |-> "none", s |-> <<>>]
AbsentText == [t |-> "absent", s |-> <<>>]

\* dict.get(key, default) for a field that may be absent
Get(field, default) == IF field.t = "absent" THEN default ELSE field

\* str(value)
PyStr(value) == IF value.t = "none" THEN <<"N","o","n","e">> ELSE value.s

\* what a helper returns: a value, or an exception raised inside it
Ok(v)  == [ok |-> TRUE, v |-> v]
Raise  == [ok |-> FALSE, v |-> PyInt(0)]

---------------------------------------------------------------------------
(* ScoringEngine: helper methods *)

\* sum(len(x) for x in d.values()); d is [kind, v]: kind "dict" (v maps keys
\* to collections), "list" (not a dict: no .values()) or "dict_of_int" (a
\* dict whose values have no len())
SumOfLens(d) ==
    IF d.kind = "dict" THEN Ok(SumLen(d.v, DOMAIN d.v)) ELSE Raise

DictValue(v) == [kind |-> "dict", v |-> v]
AbsentDict   == [kind |-> "absent", v |-> EmptyDict]

GetDict(field) == IF field.kind = "absent" THEN DictValue(EmptyDict) ELSE field

\* _analyze_skill_depth with "greater than" at every step
SkillDepthStrict(skill_analysis) ==
    LET exact_matches == GetDict(skill_analysis.exact_matches)
        total_matches == SumOfLens(exact_matches)
    IN  IF ~total_matches.ok THEN Raise
        ELSE IF total_matches.v > 8 THEN Ok(PyInt(90))
        ELSE IF total_matches.v > 5 THEN Ok(PyInt(75))
        ELSE IF total_matches.v > 3 THEN Ok(PyInt(60))
        ELSE Ok(PyInt(40))

_analyze_skill_depth(skill_analysis) ==
    LET exact_matches == GetDict(skill_analysis.exact_matches)
        total_matches == SumOfLens(exact_matches)
    IN  IF ~total_matches.ok THEN Raise
        ELSE IF total_matches.v >= 8 THEN Ok(PyInt(90))
        ELSE IF total_matches.v >= 5 THEN Ok(PyInt(75))
        ELSE IF total_matches.v >= 3 THEN Ok(PyInt(60))
        ELSE Ok(PyInt(40))

\* _calculate_skill_relevance measuring the missing share
SkillRelevanceOfMissing(exact_matches, missing_skills) ==
    LET total_exact   == SumOfLens(exact_matches)
        total_missing == SumOfLens(missing_skills)
    IN  IF ~total_exact.ok \/ ~total_missing.ok THEN Raise
        ELSE IF total_exact.v + total_missing.v = 0 THEN Ok(PyInt(50))
        ELSE Ok(Min(Share(total_missing.v, total_exact.v + total_missing.v),
                    PyInt(100)))

_calculate_skill_relevance(exact_matches, missing_skills) ==
    LET total_exact   == SumOfLens(exact_matches)
        total_missing == SumOfLens(missing_skills)
    IN  IF ~total_exact.ok \/ ~total_missing.ok THEN Raise
        ELSE IF total_exact.v + total_missing.v = 0 THEN Ok(PyInt(50))
        ELSE Ok(Min(Share(total_exact.v, total_exact.v + total_missing.v),
                    PyInt(100)))

\* match[i] of a findall result: a character of a one-group match (a str),
\* a group of a two-group match (a tuple)
MatchItem(pattern, match, i) == IF pattern = 2 THEN match[i] ELSE <<match[i]>>

RECURSIVE SumRanges(_, _, _)
\* "for match in matches: if len(match) == 2: total_years += end - start"
SumRanges(pattern, matches, k) ==
    IF k > Len(matches) THEN 0
    ELSE LET match == matches[k]
             start_year == ToInt(MatchItem(pattern, match, 1))
             end_year   == IF IsDigitStr(MatchItem(pattern, match, 2))
                           THEN ToInt(MatchItem(pattern, match, 2))
                           ELSE 2024
         IN  (IF Len(match) = 2 THEN end_year - start_year ELSE 0)
             + SumRanges(pattern, matches, k + 1)

\* the body of "for pattern in year_patterns", lines 242-251
YearsOfMatches(total_years, pattern, matches) ==
    IF matches = <<>> THEN total_years
    ELSE IF Len(matches[1]) = 1
         THEN IF ToInt(matches[1]) > total_years
              THEN ToInt(matches[1]) ELSE total_years
         ELSE total_years + SumRanges(pattern, matches, 1)

\* one iteration of "for pattern in year_patterns"
YearsOfPattern(total_years, pattern, work_exp) ==
    YearsOfMatches(total_years, pattern, FindAll(pattern, work_exp, 1))

\* total_years after the loop over the three year_patterns
TotalYears(work_exp) ==
    YearsOfPattern(YearsOfPattern(YearsOfPattern(0, 1, work_exp), 2, work_exp),
                   3, work_exp)

\* "Score based on years", lines 253-265
ScoreOfYears(total_years) ==
    IF total_years >= 10 THEN Ok(PyInt(100))
    ELSE IF total_years >= 7 THEN Ok(PyInt(90))
    ELSE IF total_years >= 5 THEN Ok(PyInt(80))
    ELSE IF total_years >= 3 THEN Ok(PyInt(70))
    ELSE IF total_years >= 1 THEN Ok(PyInt(60))
    ELSE Ok(PyInt(30))

_calculate_years_score(resume_data) ==
    IF resume_data.shape # "dict" THEN Raise
    ELSE ScoreOfYears(TotalYears(
             Lower(PyStr(Get(resume_data.work_experience, Str(<<>>))))))

\* _calculate_role_relevance returning 50
RoleRelevanceLow(experience_analysis) == Ok(PyInt(50))

_calculate_role_relevance(experience_analysis) == Ok(PyInt(75))

\* _calculate_industry_match returning 100
IndustryMatchFull(experience_analysis) == Ok(PyInt(100))

_calculate_industry_match(experience_analysis) == Ok(PyInt(70))

\* number of the words of a list that occur in text
CountIn(words, text) ==
    Cardinality({i \in DOMAIN words : Contains(text, words[i])})

progression_indicators ==
    << <<"p","r","o","m","o","t","e","d">>,
       <<"s","e","n","i","o","r">>,
       <<"l","e","a","d">>,
       <<"m","a","n","a","g","e","r">>,
       <<"d","i","r","e","c","t","o","r">>,
       <<"p","r","i","n","c","i","p","a","l">>,
       <<"a","r","c","h","i","t","e","c","t">>,
       <<"h","e","a","d"," ","o","f">>,
       <<"c","h","i","e","f">> >>

\* _calculate_career_progression returning the score without min(score, 100)
CareerProgressionUncapped(resume_data) ==
    IF resume_data.shape # "dict" THEN Raise
    ELSE Ok(PyInt(50 + 10 * CountIn(progression_indicators,
            Lower(PyStr(Get(resume_data.work_experience, Str(<<>>)))))))

_calculate_career_progression(resume_data) ==
    IF resume_data.shape # "dict" THEN Raise
    ELSE LET work_exp == Lower(PyStr(Get(resume_data.work_experience, Str(<<>>))))
             score == 50 + 10 * CountIn(progression_indicators, work_exp)
         IN  Ok(Min(PyInt(score), PyInt(100)))

degree_levels ==
    << <<"p","h","d">>,
       <<"d","o","c","t","o","r","a","t","e">>,
       <<"m","a","s","t","e","r">>,
       <<"b","a","c","h","e","l","o","r">>,
       <<"a","s","s","o","c","i","a","t","e">> >>

\* the first entry of degree_levels found in text, 0 when none is
FirstDegree(text) ==
    IF \E i \in DOMAIN degree_levels : Contains(text, degree_levels[i])
    THEN CHOOSE i \in DOMAIN degree_levels :
            /\ Contains(text, degree_levels[i])
            /\ \A j \in 1..(i - 1) : ~Contains(text, degree_levels[j])
    ELSE 0

\* degree_scores, by position in degree_levels
degree_scores == <<4, 4, 3, 2, 1>>

\* _calculate_degree_match testing the candidate's degree before the job's
DegreeMatchCandidateFirst(education_text, jd_education) ==
    LET candidate_degree == FirstDegree(education_text)
        required_degree  == FirstDegree(jd_education)
    IN  IF candidate_degree = 0 THEN PyInt(30)
        ELSE IF required_degree = 0 THEN PyInt(80)
        ELSE LET candidate_level == degree_scores[candidate_degree]
                 required_level  == degree_scores[required_degree]
             IN  IF candidate_level >= required_level THEN PyInt(100)
                 ELSE IF candidate_level = required_level - 1 THEN PyInt(70)
                 ELSE PyInt(40)

_calculate_degree_match(education_text, jd_education) ==
    LET candidate_degree == FirstDegree(education_text)
        required_degree  == FirstDegree(jd_education)
    IN  IF required_degree = 0 THEN PyInt(80)
        ELSE IF candidate_degree = 0 THEN PyInt(30)
        ELSE LET candidate_level == degree_scores[candidate_degree]
                 required_level  == degree_scores[required_degree]
             IN  IF candidate_level >= required_level THEN PyInt(100)
                 ELSE IF candidate_level = required_level - 1 THEN PyInt(70)
                 ELSE PyInt(40)

tech_fields ==
    << <<"c","o","m","p","u","t","e","r"," ","s","c","i","e","n","c","e">>,
       <<"s","o","f","t","w","a","r","e">>,
       <<"e","n","g","i","n","e","e","r","i","n","g">>,
       <<"t","e","c","h","n","o","l","o","g","y">>,
       <<"i","n","f","o","r","m","a","t","i","o","n"," ","s","y","s","t","e","m","s">>,
       <<"d","a","t","a"," ","s","c","i","e","n","c","e">>,
       <<"m","a","t","h","e","m","a","t","i","c","s">>,
       <<"s","t","a","t","i","s","t","i","c","s">> >>

_calculate_field_relevance(education_text, jd_education) ==
    LET candidate_has_tech == CountIn(tech_fields, education_text) > 0
        jd_requires_tech   == CountIn(tech_fields, jd_education) > 0
    IN  IF ~jd_requires_tech THEN PyInt(80)
        ELSE IF candidate_has_tech THEN PyInt(90)
        ELSE PyInt(50)

cert_indicators ==
    << <<"c","e","r","t","i","f","i","e","d">>,
       <<"c","e","r","t","i","f","i","c","a","t","i","o","n">>,
       <<"a","w","s">>,
       <<"a","z","u","r","e">>,
       <<"g","o","o","g","l","e"," ","c","l","o","u","d">>,
       <<"p","m","p">>,
       <<"s","c","r","u","m"," ","m","a","s","t","e","r">>,
       <<"a","g","i","l","e">>,
       <<"i","t","i","l">>,
       <<"c","i","s","s","p">> >>

_calculate_certification_score(resume_data) ==
    IF resume_data.shape # "dict" THEN Raise
    ELSE LET text == Lower(PyStr(Get(resume_data.achievements, Str(<<>>))))
             cert_count == CountIn(cert_indicators, text)
         IN  Ok(Min(PyInt(cert_count * 20), PyInt(100)))

achievement_indicators ==
    << <<"a","w","a","r","d">>,
       <<"r","e","c","o","g","n","i","t","i","o","n">>,
       <<"p","u","b","l","i","s","h","e","d">>,
       <<"p","a","t","e","n","t">>,
       <<"l","e","d"," ","t","e","a","m">>,
       <<"i","n","c","r","e","a","s","e","d">>,
       <<"i","m","p","r","o","v","e","d">>,
       <<"r","e","d","u","c","e","d">>,
       <<"s","a","v","e","d">>,
       <<"g","r","e","w">>,
       <<"b","u","i","l","t">> >>

\* _calculate_achievements_score returning the score without min(score, 100)
AchievementsUncapped(resume_data) ==
    IF resume_data.shape # "dict" THEN Raise
    ELSE Ok(PyInt(50 + 8 * CountIn(achievement_indicators,
            Lower(PyStr(Get(resume_data.achievements, Str(<<>>)))))))

_calculate_achievements_score(resume_data) ==
    IF resume_data.shape # "dict" THEN Raise
    ELSE LET achievements_text ==
                 Lower(PyStr(Get(resume_data.achievements, Str(<<>>))))
             score == 50 + 8 * CountIn(achievement_indicators, achievements_text)
         IN  Ok(Min(PyInt(score), PyInt(100)))

---------------------------------------------------------------------------
(* ScoringEngine: construction and the four scoring entry points          *)
(* A returned breakdown carries error = TRUE when the "error" key was set, *)
(* and raised = TRUE when the call ended in an exception instead.          *)

\* ScoringEngine.__init__: the weights, and the thresholds read from Config
NewScoringEngine(config) ==
    [score_weights |-> [skills       |-> Num(35, 100),
                        experience   |-> Num(30, 100),
                        education    |-> Num(15, 100),
                        achievements |-> Num(10, 100),
                        cultural_fit |-> Num(10, 100)],
     hire_threshold        |-> config.HIRE_THRESHOLD,
     strong_hire_threshold |-> config.STRONG_HIRE_THRESHOLD]

NoDetails == [present |-> FALSE, exact_matches_count |-> 0,
              missing_critical_skills |-> 0, overall_match_percentage |-> PyInt(0)]

\* "except Exception as e": the error key is set and total_score is zeroed
Caught(score_breakdown) ==
    [score_breakdown EXCEPT !.error = TRUE, !.total_score = PyInt(0)]

calculate_skills_score(skill_analysis) ==
    LET b0 == [technical_skills |-> PyInt(0), skill_depth |-> PyInt(0),
               skill_relevance |-> PyInt(0), total_score |-> PyInt(0),
               details |-> NoDetails, error |-> FALSE, raised |-> FALSE]
    IN  IF skill_analysis.shape # "dict" THEN Caught(b0)
        ELSE
        LET exact_matches  == GetDict(skill_analysis.exact_matches)
            missing_skills == GetDict(skill_analysis.missing_skills)
            overall_match  == Get(skill_analysis.overall_score, PyInt(0))
        IN  IF ~IsNum(overall_match) THEN Caught(b0)
            ELSE
            LET technical_score == Min(overall_match, PyInt(100))
                b1 == [b0 EXCEPT !.technical_skills = technical_score]
                depth_score == _analyze_skill_depth(skill_analysis)
            IN  IF ~depth_score.ok THEN Caught(b1)
                ELSE
                LET b2 == [b1 EXCEPT !.skill_depth = depth_score.v]
                    relevance_score ==
                        _calculate_skill_relevance(exact_matches, missing_skills)
                IN  IF ~relevance_score.ok THEN Caught(b2)
                    ELSE
                    LET b3 == [b2 EXCEPT !.skill_relevance = relevance_score.v]
                        total_score ==
                            Add(Add(Mul(technical_score, Num(4, 10)),
                                    Mul(depth_score.v, Num(3, 10))),
                                Mul(relevance_score.v, Num(3, 10)))
                    IN  [b3 EXCEPT
                          !.total_score = Round2(total_score),
                          !.details =
                            [present |-> TRUE,
                             exact_matches_count |-> SumOfLens(exact_matches).v,
                             missing_critical_skills |-> SumOfLens(missing_skills).v,
                             overall_match_percentage |-> overall_match]]

calculate_experience_score(experience_analysis, resume_data) ==
    LET b0 == [years_of_experience |-> PyInt(0), role_relevance |-> PyInt(0),
               industry_match |-> PyInt(0), career_progression |-> PyInt(0),
               total_score |-> PyInt(0), error |-> FALSE, raised |-> FALSE]
        years_score == _calculate_years_score(resume_data)
    IN  IF ~years_score.ok THEN Caught(b0)
        ELSE
        LET b1 == [b0 EXCEPT !.years_of_experience = years_score.v]
            role_score == _calculate_role_relevance(experience_analysis)
            b2 == [b1 EXCEPT !.role_relevance = role_score.v]
            industry_score == _calculate_industry_match(experience_analysis)
            b3 == [b2 EXCEPT !.industry_match = industry_score.v]
            progression_score == _calculate_career_progression(resume_data)
        IN  IF ~progression_score.ok THEN Caught(b3)
            ELSE
            LET b4 == [b3 EXCEPT !.career_progression = progression_score.v]
                total_score ==
                    Add(Add(Add(Mul(years_score.v, Num(3, 10)),
                                Mul(role_score.v, Num(4, 10))),
                            Mul(industry_score.v, Num(2, 10))),
                        Mul(progression_score.v, Num(1, 10)))
            IN  [b4 EXCEPT !.total_score = Round2(total_score)]

calculate_education_score(resume_data, jd_data) ==
    LET b0 == [degree_match |-> PyInt(0), institution_quality |-> PyInt(0),
               field_relevance |-> PyInt(0), certifications |-> PyInt(0),
               total_score |-> PyInt(0), error |-> FALSE, raised |-> FALSE]
    IN  IF resume_data.shape # "dict" \/ jd_data.shape # "dict" THEN Caught(b0)
        ELSE
        LET education_text == Lower(PyStr(Get(resume_data.education, Str(<<>>))))
            jd_education ==
                Lower(PyStr(Get(jd_data.educational_requirements, Str(<<>>))))
            degree_score == _calculate_degree_match(education_text, jd_education)
            b1 == [b0 EXCEPT !.degree_match = degree_score]
            field_score == _calculate_field_relevance(education_text, jd_education)
            b2 == [b1 EXCEPT !.field_relevance = field_score]
            cert_score == _calculate_certification_score(resume_data)
        IN  IF ~cert_score.ok THEN Caught(b2)
            ELSE
            LET b3 == [b2 EXCEPT !.certifications = cert_score.v]
                total_score ==
                    Add(Add(Mul(degree_score, Num(4, 10)),
                            Mul(field_score, Num(4, 10))),
                        Mul(cert_score.v, Num(2, 10)))
            IN  [b3 EXCEPT !.total_score = Round2(total_score)]

\* _generate_recommendation with "greater than" at every threshold
RecommendationStrict(self, overall_score) ==
    IF Gt(overall_score, PyInt(self.strong_hire_threshold))
    THEN [decision |-> "Strong Hire", confidence |-> "High",
          score |-> overall_score]
    ELSE IF Gt(overall_score, PyInt(self.hire_threshold))
    THEN [decision |-> "Hire", confidence |-> "Medium-High",
          score |-> overall_score]
    ELSE IF Gt(overall_score, PyInt(50))
    THEN [decision |-> "Maybe", confidence |-> "Medium",
          score |-> overall_score]
    ELSE [decision |-> "Don't Hire", confidence |-> "High",
          score |-> overall_score]

_generate_recommendation(self, overall_score) ==
    IF Ge(overall_score, PyInt(self.strong_hire_threshold))
    THEN [decision |-> "Strong Hire", confidence |-> "High",
          score |-> overall_score]
    ELSE IF Ge(overall_score, PyInt(self.hire_threshold))
    THEN [decision |-> "Hire", confidence |-> "Medium-High",
          score |-> overall_score]
    ELSE IF Ge(overall_score, PyInt(50))
    THEN [decision |-> "Maybe", confidence |-> "Medium",
          score |-> overall_score]
    ELSE [decision |-> "Don't Hire", confidence |-> "High",
          score |-> overall_score]

\* breakdown.get("total_score", 0) of a breakdown [shape, total_score]
TotalOf(breakdown) == Get(breakdown.total_score, PyInt(0))

\* _identify_risk_factors with "at most" at every limit
RiskFactorsInclusive(skills_score, experience_score, education_score) ==
    (IF Le(TotalOf(skills_score), PyInt(60))
     THEN {"Significant technical skill gaps"} ELSE {})
    \cup (IF Le(TotalOf(experience_score), PyInt(50))
          THEN {"Limited relevant experience"} ELSE {})
    \cup (IF Le(TotalOf(education_score), PyInt(40))
          THEN {"Educational background concerns"} ELSE {})

\* the three helpers below run after the weighted sum, hence on numbers
_identify_risk_factors(skills_score, experience_score, education_score) ==
    (IF Lt(TotalOf(skills_score), PyInt(60))
     THEN {"Significant technical skill gaps"} ELSE {})
    \cup (IF Lt(TotalOf(experience_score), PyInt(50))
          THEN {"Limited relevant experience"} ELSE {})
    \cup (IF Lt(TotalOf(education_score), PyInt(40))
          THEN {"Educational background concerns"} ELSE {})

_identify_strengths(skills_score, experience_score, education_score) ==
    (IF Ge(TotalOf(skills_score), PyInt(80))
     THEN {"Strong technical skills"} ELSE {})
    \cup (IF Ge(TotalOf(experience_score), PyInt(80))
          THEN {"Extensive relevant experience"} ELSE {})
    \cup (IF Ge(TotalOf(education_score), PyInt(80))
          THEN {"Strong educational background"} ELSE {})

\* _calculate_confidence with "score_variance <= 20" in the first test
ConfidenceInclusive(overall_score, skills_score, experience_score) ==
    LET skills_total == TotalOf(skills_score)
        experience_total == TotalOf(experience_score)
        score_variance == Sub(Max(skills_total, experience_total),
                              Min(skills_total, experience_total))
    IN  IF Le(score_variance, PyInt(20))
           /\ (Gt(overall_score, PyInt(80)) \/ Lt(overall_score, PyInt(40)))
        THEN "High"
        ELSE IF Lt(score_variance, PyInt(30)) THEN "Medium"
        ELSE "Low"

_calculate_confidence(overall_score, skills_score, experience_score) ==
    LET skills_total == TotalOf(skills_score)
        experience_total == TotalOf(experience_score)
        score_variance == Sub(Max(skills_total, experience_total),
                              Min(skills_total, experience_total))
    IN  IF Lt(score_variance, PyInt(20))
           /\ (Gt(overall_score, PyInt(80)) \/ Lt(overall_score, PyInt(40)))
        THEN "High"
        ELSE IF Lt(score_variance, PyInt(30)) THEN "Medium"
        ELSE "Low"

\* what calculate_overall_score yields when an exception leaves it
Raised ==
    [overall_score |-> PyInt(0),
     component_scores |-> [skills |-> PyInt(0), experience |-> PyInt(0),
                           education |-> PyInt(0), achievements |-> PyInt(0)],
     recommendation |-> [decision |-> "", confidence |-> "", score |-> PyInt(0)],
     risk_factors |-> {}, strengths |-> {}, decision_confidence |-> "",
     error |-> FALSE, raised |-> TRUE]

calculate_overall_score(self, skills_score, experience_score, education_score, resume_data) ==
    IF \/ skills_score.shape # "dict"
       \/ experience_score.shape # "dict"
       \/ education_score.shape # "dict"
    THEN Raised
    ELSE
    LET skills_total     == TotalOf(skills_score)
        experience_total == TotalOf(experience_score)
        education_total  == TotalOf(education_score)
        achievements_score == _calculate_achievements_score(resume_data)
    IN  IF \/ ~achievements_score.ok
           \/ ~IsNum(skills_total)
           \/ ~IsNum(experience_total)
           \/ ~IsNum(education_total)
        THEN Raised
        ELSE
        LET overall_score ==
                Add(Add(Add(Mul(skills_total, self.score_weights.skills),
                            Mul(experience_total, self.score_weights.experience)),
                        Mul(education_total, self.score_weights.education)),
                    Mul(achievements_score.v, self.score_weights.achievements))
        IN  [overall_score |-> Round2(overall_score),
             component_scores |-> [skills |-> skills_total,
                                   experience |-> experience_total,
                                   education |-> education_total,
                                   achievements |-> achievements_score.v],
             recommendation |-> _generate_recommendation(self, overall_score),
             risk_factors |-> _identify_risk_factors(
                 skills_score, experience_score, education_score),
             strengths |-> _identify_strengths(
                 skills_score, experience_score, education_score),
             decision_confidence |-> _calculate_confidence(
                 overall_score, skills_score, experience_score),
             error |-> FALSE, raised |-> FALSE]

---------------------------------------------------------------------------
(* Bounded inputs of the matcher *)

MaxLen == 2         \* longest skill list in an input map

Categories == {"programming_languages", "databases"}

SkillsOf(category) ==
    IF category = "programming_languages"
    THEN {"python", "java", "javascript"}
    ELSE {"postgresql", "mongodb"}

ListsOf(category) ==
    UNION {[1..len -> SkillsOf(category)] : len \in 0..MaxLen}

\* every dict category -> list with keys among Categories
SkillMaps ==
    UNION {{m \in [keys -> UNION {ListsOf(c) : c \in Categories}] :
                \A c \in keys : m[c] \in ListsOf(c)} :
           keys \in SUBSET Categories}

---------------------------------------------------------------------------
(* Bounded inputs of the scoring engine *)

MaxExact   == 8     \* most exact matches in one category of a hand-built analysis
MaxMissing == 2     \* most missing skills in one category of a hand-built analysis

\* the programming_languages list of _load_skill_categories
programming_languages ==
    <<"python", "java", "javascript", "typescript", "c++", "c#", "go",
      "rust", "swift", "kotlin", "scala", "ruby", "php", "r", "matlab">>

FirstSkills(count) == {programming_languages[i] : i \in 1..count}

\* dicts category -> collection holding up to max skills of the first
\* category, with or without a second category of one skill
CountDicts(max) ==
    {EmptyDict}
    \cup {[c \in {"programming_languages"} |-> FirstSkills(count)] :
             count \in 0..max}
    \cup {[c \in Categories |->
             IF c = "programming_languages" THEN FirstSkills(count)
             ELSE {"postgresql"}] : count \in 0..max}

MalformedDicts ==
    {AbsentDict, [kind |-> "list", v |-> EmptyDict],
     [kind |-> "dict_of_int", v |-> EmptyDict]}

\* values of the overall_score key: percentages, numbers that are no
\* percentage (the code takes any number), or not a number, or no key
OverallScores ==
    {PyInt(0), Share(1, 3), PyInt(50), PyInt(75), PyInt(100),
     PyInt(120), PyInt(-200),
     NotNum("str"), NotNum("none"), NotNum("absent")}

SkillAnalyses ==
    {[shape |-> "dict", exact_matches |-> e, missing_skills |-> m,
      overall_score |-> o] :
        e \in {DictValue(d) : d \in CountDicts(MaxExact)} \cup MalformedDicts,
        m \in {DictValue(d) : d \in CountDicts(MaxMissing)} \cup MalformedDicts,
        o \in OverallScores}
    \cup {[shape |-> "nondict", exact_matches |-> AbsentDict,
           missing_skills |-> AbsentDict, overall_score |-> NotNum("absent")]}

WorkTexts ==
    { Str(<<>>),
      Str(<<"1"," ","y","e","a","r">>),
      Str(<<"4"," ","Y","e","a","r","s"," ","a","s"," ","L","e","a","d">>),
      Str(<<"5","+"," ","y","e","a","r","s">>),
      Str(<<"8"," ","y","e","a","r","s",","," ","p","r","o","m","o","t","e","d"," ","t","o"," ","m","a","n","a","g","e","r">>),
      Str(<<"1","0"," ","y","e","a","r","s">>),
      Str(<<"1","5"," ","y","e","a","r","s">>),
      Str(<<"3"," ","y","e","a","r","s",","," ","t","h","e","n"," ","8"," ","y","e","a","r","s">>),
      Str(<<"1","2","+"," ","y","e","a","r","s">>),
      Str(<<"2","0","1","2","-","2","0","1","5",","," ","2","0","1","9","-","p","r","e","s","e","n","t">>),
      Str(<<"2","0","1","5","-","2","0","2","0">>),
      Str(<<"6","\r","\n","y","e","a","r","s">>),
      \* "5" ogham space mark "years"
      Str(<<"5","U+1680","y","e","a","r","s">>),
      \* arabic-indic "3" and "years", and a range in fullwidth digits
      Str(<<"U+0663"," ","y","e","a","r","s">>),
      Str(<<"U+FF12","U+FF10","U+FF11","U+FF15","-","U+FF12","U+FF10","U+FF12","U+FF10">>),
      \* "SEN" capital I with dot above "OR LEAD, 8 years"
      Str(<<"S","E","N","U+0130","O","R"," ","L","E","A","D",","," ","8"," ","y","e","a","r","s">>),
      \* "5" chr(160) "years of python"
      Str(<<"5"," ","y","e","a","r","s"," ","o","f"," ","p","y","t","h","o","n">>),
      \* "7" chr(11) chr(133) "YEARS AS SENIOR ENGINEER"
      Str(<<"7","","","Y","E","A","R","S"," ","A","S"," ","S","E","N","I","O","R"," ","E","N","G","I","N","E","E","R">>),
      \* "2015" chr(160) chr(28) "-" chr(29) chr(30) chr(31) "2020"
      Str(<<"2","0","1","5"," ","","-","","","","2","0","2","0">>),
      Str(<<"2","0","1","6","\f","-","\f","2","0","2","0">>),
      Str(<<"2","0","1","9"," ","-"," ","p","r","e","s","e","n","t">>),
      Str(<<"S","e","n","i","o","r"," ","2","0","1","0","-","2","0","1","4","\n","2","0","1","4"," ","-"," ","2","0","2","1">>),
      Str(<<"p","r","o","m","o","t","e","d"," ","s","e","n","i","o","r"," ","l","e","a","d"," ","m","a","n","a","g","e","r"," ","d","i","r","e","c","t","o","r"," ","p","r","i","n","c","i","p","a","l"," ","a","r","c","h","i","t","e","c","t"," ","h","e","a","d"," ","o","f"," ","c","h","i","e","f">>) }

EducationTexts ==
    { Str(<<>>),
      Str(<<"B","a","c","h","e","l","o","r"," ","o","f"," ","S","c","i","e","n","c","e"," ","i","n"," ","C","o","m","p","u","t","e","r"," ","S","c","i","e","n","c","e">>),
      Str(<<"M","a","s","t","e","r"," ","o","f"," ","A","r","t","s">>),
      Str(<<"P","h","D"," ","i","n"," ","S","t","a","t","i","s","t","i","c","s">>),
      Str(<<"a","s","s","o","c","i","a","t","e"," ","d","e","g","r","e","e">>),
      Str(<<"A","s","s","o","c","i","a","t","e",","," ","t","h","e","n"," ","B","a","c","h","e","l","o","r",","," ","t","h","e","n"," ","M","a","s","t","e","r">>),
      Str(<<"d","o","c","t","o","r","a","t","e">>) }

JdEducationTexts ==
    { Str(<<>>),
      Str(<<"b","a","c","h","e","l","o","r">>),
      Str(<<"M","a","s","t","e","r"," ","i","n"," ","E","n","g","i","n","e","e","r","i","n","g">>),
      Str(<<"P","h","D"," ","o","r"," ","d","o","c","t","o","r","a","t","e">>),
      Str(<<"d","e","g","r","e","e"," ","i","n"," ","t","e","c","h","n","o","l","o","g","y">>) }

AchievementTexts ==
    { Str(<<>>),
      Str(<<"E","m","p","l","o","y","e","e"," ","a","w","a","r","d">>),
      Str(<<"A","W","S"," ","C","e","r","t","i","f","i","e","d",","," ","P","M","P">>),
      Str(<<"c","e","r","t","i","f","i","e","d"," ","c","e","r","t","i","f","i","c","a","t","i","o","n"," ","a","w","s"," ","a","z","u","r","e"," ","a","g","i","l","e"," ","i","t","i","l">>),
      Str(<<"a","w","a","r","d"," ","r","e","c","o","g","n","i","t","i","o","n"," ","p","u","b","l","i","s","h","e","d"," ","p","a","t","e","n","t"," ","i","n","c","r","e","a","s","e","d"," ","i","m","p","r","o","v","e","d"," ","r","e","d","u","c","e","d">>) }

TextFields(texts) == texts \cup {AbsentText, NoneText}

ResumeData(work, education, achievements) ==
    [shape |-> "dict", work_experience |-> work, education |-> education,
     achievements |-> achievements]

NonDictResume ==
    [shape |-> "nondict", work_experience |-> AbsentText,
     education |-> AbsentText, achievements |-> AbsentText]

JdData(requirements) ==
    [shape |-> "dict", educational_requirements |-> requirements]

NonDictJd == [shape |-> "nondict", educational_requirements |-> AbsentText]

\* values of a total_score key: scores, numbers outside the range of a
\* score (the code takes any number), or not a number, or no key
TotalScores ==
    {PyInt(0), Num(3998, 100), PyInt(40), PyInt(50), Num(5998, 100),
     PyInt(60), PyInt(80), PyInt(92), PyInt(100),
     PyInt(1000), PyInt(-200),
     NotNum("str"), NotNum("none"), NotNum("absent")}

\* hand-built breakdowns: a dict with or without total_score, or no dict
Breakdowns ==
    {[shape |-> "dict", total_score |-> t] : t \in TotalScores}
    \cup {[shape |-> "nondict", total_score |-> NotNum("absent")]}

\* scores handed to _generate_recommendation
RecommendationScores ==
    {PyInt(0), PyInt(30), Num(4999, 100), PyInt(50), PyInt(60),
     Num(6999, 100), PyInt(70), PyInt(75), Num(8499, 100), PyInt(85),
     PyInt(95), PyInt(100)}

\* Config as shipped (src/config.py) and as the sidebar sliders can leave it
DefaultConfig == [HIRE_THRESHOLD |-> 70, STRONG_HIRE_THRESHOLD |-> 85]

Configs ==
    {DefaultConfig,
     [HIRE_THRESHOLD |-> 60, STRONG_HIRE_THRESHOLD |-> 90],
     [HIRE_THRESHOLD |-> 90, STRONG_HIRE_THRESHOLD |-> 70]}

---------------------------------------------------------------------------
(* State of the Streamlit script (src/app.py).  Config is a class of an   *)
(* imported module: the process holds one, whatever the number of browser *)
(* sessions; st.session_state and the widget values belong to a session.  *)

Sessions == {"s1", "s2"}

None == [none |-> TRUE]

\* app.py lines 29-33
NewSessionState == [analysis_complete |-> FALSE, analysis_results |-> None]

\* what the LLM chains return for a resume and a job description, and the
\* skills extract_skills_from_text finds in the two raw texts
AppAnalyses ==
    { [candidate_skills |->
           ("programming_languages" :> <<"python", "java">>)
           @@ ("databases" :> <<"postgresql", "mongodb">>),
       jd_skills |->
           ("programming_languages" :> <<"python", "java">>)
           @@ ("databases" :> <<"postgresql", "mongodb">>),
       resume_analysis |-> ResumeData(
           Str(<<"8"," ","y","e","a","r","s",","," ","p","r","o","m","o","t","e","d"," ","t","o"," ","m","a","n","a","g","e","r">>),
           Str(<<"P","h","D"," ","i","n"," ","S","t","a","t","i","s","t","i","c","s">>),
           Str(<<"A","W","S"," ","C","e","r","t","i","f","i","e","d",","," ","P","M","P">>)),
       jd_analysis |-> JdData(Str(<<"b","a","c","h","e","l","o","r">>))],
      [candidate_skills |->
           ("programming_languages" :> <<"python", "java">>)
           @@ ("databases" :> <<"postgresql">>),
       jd_skills |->
           ("programming_languages" :> <<"python", "java">>)
           @@ ("databases" :> <<"postgresql">>),
       resume_analysis |-> ResumeData(
           Str(<<"8"," ","y","e","a","r","s",","," ","p","r","o","m","o","t","e","d"," ","t","o"," ","m","a","n","a","g","e","r">>),
           Str(<<"P","h","D"," ","i","n"," ","S","t","a","t","i","s","t","i","c","s">>),
           AbsentText),
       jd_analysis |-> JdData(Str(<<>>))] }

---------------------------------------------------------------------------
(* Specification of the matcher: any two maps, then calls on them *)

\* the match result as the engine receives it: a dict
AsSkillAnalysis(match) ==
    [shape |-> "dict",
     exact_matches  |-> DictValue(match.exact_matches),
     missing_skills |-> DictValue(match.missing_skills),
     overall_score  |-> match.overall_score]

InitMatch ==
    /\ subject = "matcher"
    /\ op = "init"
    /\ candidate_skills \in SkillMaps
    /\ required_skills \in SkillMaps
    /\ match_result = NewMatchResult
    /\ matcher = NewSkillMatcher
    /\ Config = DefaultConfig
    /\ engine = NewScoringEngine(Config)
    /\ args = None
    /\ result = None
    /\ request = None
    /\ session_state = [s \in Sessions |-> NewSessionState]
    /\ widgets = [s \in Sessions |->
                    [hire_threshold |-> 0, strong_hire_threshold |-> 0]]

\* calculate_skill_match_score(candidate_skills, required_skills)
Match ==
    /\ subject = "matcher"
    /\ op = "init"
    /\ op' = "match"
    /\ match_result' = calculate_skill_match_score(candidate_skills, required_skills)
    /\ UNCHANGED <<subject, candidate_skills, required_skills, matcher, Config,
                   engine, args, result, request, session_state, widgets>>

\* the candidate acquires a skill the job requires in some category,
\* and the match is computed again
MatchWithSkillAdded ==
    /\ subject = "matcher"
    /\ op \in {"match", "match_added"}
    /\ \E category \in DOMAIN required_skills :
         \E skill \in SetOf(required_skills[category]) :
            LET old == DictGet(candidate_skills, category, <<>>)
            IN  /\ Len(old) < MaxLen
                /\ candidate_skills' =
                       DictSet(candidate_skills, category, Append(old, skill))
    /\ op' = "match_added"
    /\ match_result' = calculate_skill_match_score(candidate_skills', required_skills)
    /\ UNCHANGED <<subject, required_skills, matcher, Config, engine, args,
                   result, request, session_state, widgets>>

\* app.py run_analysis, lines 269-276: the match result is scored
ScoreSkillsOfMatch ==
    /\ subject = "matcher"
    /\ op \in {"match", "match_added"}
    /\ op' = "calculate_skills_score"
    /\ args' = [skill_analysis |-> AsSkillAnalysis(match_result)]
    /\ result' = calculate_skills_score(AsSkillAnalysis(match_result))
    /\ UNCHANGED <<subject, candidate_skills, required_skills, match_result,
                   matcher, Config, engine, request, session_state, widgets>>

NextMatch == Match \/ MatchWithSkillAdded \/ ScoreSkillsOfMatch

SpecMatch == InitMatch /\ [][NextMatch]_vars

---------------------------------------------------------------------------
(* Specification of the scoring engine: an engine built under some      *)
(* configuration, then a call of one of its methods (the engine keeps no  *)
(* state between calls)                                                   *)

InitScore ==
    /\ subject = "engine"
    /\ op = "init"
    /\ candidate_skills = EmptyDict
    /\ required_skills = EmptyDict
    /\ match_result = NewMatchResult
    /\ matcher = NewSkillMatcher
    /\ Config \in Configs
    /\ engine = NewScoringEngine(Config)
    /\ args = None
    /\ result = None
    /\ request = None
    /\ session_state = [s \in Sessions |-> NewSessionState]
    /\ widgets = [s \in Sessions |->
                    [hire_threshold |-> 0, strong_hire_threshold |-> 0]]

SkillsScore ==
    /\ subject = "engine"
    /\ op = "init"
    /\ \E skill_analysis \in SkillAnalyses :
         /\ args' = [skill_analysis |-> skill_analysis]
         /\ result' = calculate_skills_score(skill_analysis)
    /\ op' = "calculate_skills_score"
    /\ UNCHANGED <<subject, candidate_skills, required_skills, match_result,
                   matcher, Config, engine, request, session_state, widgets>>

ExperienceScore ==
    /\ subject = "engine"
    /\ op = "init"
    /\ \E resume_data \in
            {ResumeData(w, AbsentText, AbsentText) : w \in TextFields(WorkTexts)}
            \cup {NonDictResume} :
         /\ args' = [experience_analysis |-> EmptyDict, resume_data |-> resume_data]
         /\ result' = calculate_experience_score(EmptyDict, resume_data)
    /\ op' = "calculate_experience_score"
    /\ UNCHANGED <<subject, candidate_skills, required_skills, match_result,
                   matcher, Config, engine, request, session_state, widgets>>

EducationScore ==
    /\ subject = "engine"
    /\ op = "init"
    /\ \E resume_data \in
            {ResumeData(AbsentText, e, a) :
                e \in TextFields(EducationTexts), a \in TextFields(AchievementTexts)}
            \cup {NonDictResume},
          jd_data \in {JdData(r) : r \in TextFields(JdEducationTexts)}
                      \cup {NonDictJd} :
         /\ args' = [resume_data |-> resume_data, jd_data |-> jd_data]
         /\ result' = calculate_education_score(resume_data, jd_data)
    /\ op' = "calculate_education_score"
    /\ UNCHANGED <<subject, candidate_skills, required_skills, match_result,
                   matcher, Config, engine, request, session_state, widgets>>

OverallScore ==
    /\ subject = "engine"
    /\ op = "init"
    /\ \E skills_score \in Breakdowns, experience_score \in Breakdowns,
          education_score \in Breakdowns,
          resume_data \in
            {ResumeData(AbsentText, AbsentText, a) :
                a \in TextFields(AchievementTexts)} \cup {NonDictResume} :
         /\ args' = [skills_score |-> skills_score,
                     experience_score |-> experience_score,
                     education_score |-> education_score,
                     resume_data |-> resume_data]
         /\ result' = calculate_overall_score(engine, skills_score,
                          experience_score, education_score, resume_data)
    /\ op' = "calculate_overall_score"
    /\ UNCHANGED <<subject, candidate_skills, required_skills, match_result,
                   matcher, Config, engine, request, session_state, widgets>>

GenerateRecommendation ==
    /\ subject = "engine"
    /\ op = "init"
    /\ \E overall_score \in RecommendationScores :
         /\ args' = [overall_score |-> overall_score]
         /\ result' = _generate_recommendation(engine, overall_score)
    /\ op' = "_generate_recommendation"
    /\ UNCHANGED <<subject, candidate_skills, required_skills, match_result,
                   matcher, Config, engine, request, session_state, widgets>>

NextScore ==
    \/ SkillsScore
    \/ ExperienceScore
    \/ EducationScore
    \/ OverallScore
    \/ GenerateRecommendation

SpecScore == InitScore /\ [][NextScore]_vars

---------------------------------------------------------------------------
(* Specification of the application: every interaction of a user makes    *)
(* the script of that session run from top to bottom (app.py 598-601):    *)
(* LangHireApp() builds a ScoringEngine, which copies the two thresholds  *)
(* of Config, then run() renders the sidebar, which hands the thresholds  *)
(* of Config to the two sliders and writes what they return to Config,    *)
(* then the analysis section.  Every session runs the script in a thread  *)
(* of its own, one run at a time, and the threads of the sessions take    *)
(* turns at any point: an action is the part of a run that ends with one  *)
(* read or one write of Config, or the part between two waits (the call   *)
(* of the LLM chains at line 253, time.sleep(1) at line 321, the run      *)
(* st.rerun() asks for at line 593).  request[session] is None between    *)
(* the runs of the session, and during a run holds                        *)
(*  - pc, the line of app.py the run has reached: 43 in ScoringEngine()   *)
(*    with hire_threshold copied, 85 and 93 before the first and the      *)
(*    second slider, 102 and 103 before the two writes to Config, 253,    *)
(*    321 and 593 at the waits;                                           *)
(*  - input, the button pressed in the browser, "none" when the run was   *)
(*    started by something else;                                          *)
(*  - scoring_engine, the engine of the run's LangHireApp instance (a     *)
(*    threshold is 0 until __init__ has assigned it);                     *)
(*  - hire_threshold and strong_hire_threshold, the locals of             *)
(*    render_sidebar (0 outside lines 85-103).                            *)
(* widgets[session] holds the positions of the two sliders in the browser *)
(* of the session, 0 before the page was first rendered.                  *)

\* a score breakdown as calculate_overall_score receives it: a dict
AsBreakdown(breakdown) ==
    [shape |-> "dict", total_score |-> breakdown.total_score]

\* run_analysis, lines 263-307: steps 2 and 3 and the compiled results
\* (None when the except clause of line 327 is reached)
run_analysis(self, analysis) ==
    LET \* lines 290-307: the compiled results
        Compiled(skill_match_score, skills_score, experience_score,
                 education_score, overall_result) ==
            IF overall_result.raised
            THEN None
            ELSE [none |-> FALSE,
                  skill_matching |-> [match_score |-> skill_match_score],
                  scoring |-> [skills |-> skills_score,
                               experience |-> experience_score,
                               education |-> education_score,
                               overall |-> overall_result]]
        \* lines 286-288: the overall score of the three scores
        Scored(skill_match_score, skills_score, experience_score,
               education_score) ==
            Compiled(skill_match_score, skills_score, experience_score,
                     education_score,
                     calculate_overall_score(self, AsBreakdown(skills_score),
                         AsBreakdown(experience_score),
                         AsBreakdown(education_score),
                         analysis.resume_analysis))
        \* lines 276-284: the three scores
        Matched(skill_match_score) ==
            Scored(skill_match_score,
                   calculate_skills_score(AsSkillAnalysis(skill_match_score)),
                   calculate_experience_score(EmptyDict,
                                              analysis.resume_analysis),
                   calculate_education_score(analysis.resume_analysis,
                                             analysis.jd_analysis))
    \* lines 270-273: the skill match
    IN  Matched(calculate_skill_match_score(analysis.candidate_skills,
                                            analysis.jd_skills))

InitApp ==
    /\ subject = "app"
    /\ op = "init"
    /\ candidate_skills = EmptyDict
    /\ required_skills = EmptyDict
    /\ match_result = NewMatchResult
    /\ matcher = NewSkillMatcher
    /\ Config = DefaultConfig
    /\ engine = NewScoringEngine(Config)
    /\ args = None
    /\ result = None
    /\ request = [s \in Sessions |-> None]
    /\ session_state = [s \in Sessions |-> NewSessionState]
    /\ widgets = [s \in Sessions |->
                    [hire_threshold |-> 0, strong_hire_threshold |-> 0]]

\* a run of the script starts for a session after an input: LangHireApp()
\* (line 600) reaches ScoringEngine() at line 43, whose __init__ copies
\* Config.HIRE_THRESHOLD (scoring_engine.py line 20)
RunScript(session, input) ==
    /\ request' = [request EXCEPT ![session] =
          [none |-> FALSE, pc |-> 43, input |-> input,
           scoring_engine |-> NewScoringEngine(
               [HIRE_THRESHOLD |-> Config.HIRE_THRESHOLD,
                STRONG_HIRE_THRESHOLD |-> 0]),
           hire_threshold |-> 0, strong_hire_threshold |-> 0]]
    /\ op' = "run"
    /\ args' = None
    /\ result' = None
    /\ UNCHANGED <<subject, candidate_skills, required_skills, match_result,
                   matcher, Config, engine, session_state>>

\* the page is loaded, an input is typed, or the stored results are shown
\* again: a run in which no button is pressed
LoadPage(session) ==
    /\ subject = "app"
    /\ request[session] = None
    /\ RunScript(session, "none")
    /\ UNCHANGED widgets

\* the user moves a slider of a rendered page to another position
MoveSlider(session) ==
    /\ subject = "app"
    /\ request[session] = None
    /\ \E move \in {[slider |-> "hire_threshold", position |-> 60],
                   [slider |-> "hire_threshold", position |-> 70]} :
         /\ widgets[session][move.slider] \notin {0, move.position}
         /\ widgets' = [widgets EXCEPT ![session][move.slider] = move.position]
    /\ RunScript(session, "none")

\* the user presses the button of the page: "Analyze Candidate" (with both
\* files uploaded, render_analysis_section, line 232), or "Run New
\* Analysis", which the page shows instead once analysis_complete is true
\* (run, lines 583-590)
PressButton(session) ==
    /\ subject = "app"
    /\ request[session] = None
    /\ widgets[session].hire_threshold # 0
    /\ \/ /\ ~session_state[session].analysis_complete
          /\ RunScript(session, "Analyze Candidate")
       \/ /\ session_state[session].analysis_complete
          /\ RunScript(session, "Run New Analysis")
    /\ UNCHANGED widgets

\* the run st.rerun() asked for: no button is pressed in it
Rerun(session) ==
    /\ subject = "app"
    /\ request[session] # None
    /\ request[session].pc = 593
    /\ RunScript(session, "none")
    /\ UNCHANGED widgets

\* LangHireApp.__init__, line 43: ScoringEngine.__init__ copies
\* Config.STRONG_HIRE_THRESHOLD (scoring_engine.py line 21) and the engine
\* is built
LangHireApp(session) ==
    /\ subject = "app"
    /\ request[session] # None
    /\ request[session].pc = 43
    /\ request' = [request EXCEPT ![session] =
          [request[session] EXCEPT
              !.pc = 85,
              !.scoring_engine = NewScoringEngine(
                  [HIRE_THRESHOLD |-> request[session].scoring_engine.hire_threshold,
                   STRONG_HIRE_THRESHOLD |-> Config.STRONG_HIRE_THRESHOLD])]]
    /\ op' = "run"
    /\ args' = None
    /\ result' = None
    /\ UNCHANGED <<subject, candidate_skills, required_skills, match_result,
                   matcher, Config, engine, session_state, widgets>>

\* render_sidebar, lines 84-103, in four steps: the slider of line 85 is
\* handed Config.HIRE_THRESHOLD, the slider of line 93 is handed
\* Config.STRONG_HIRE_THRESHOLD, line 102 writes Config.HIRE_THRESHOLD
\* (line 103 is the step that ends the run or brings it to a wait)
render_sidebar(session) ==
    LET \* st.slider(..., value=value) for a slider whose position in the
        \* browser is held.  The sliders are given no key=, and Streamlit is
        \* not part of the repository: when value= is not the position held,
        \* the slider returns the position or starts again from value=,
        \* and what it returns is the position the browser shows
        st_slider(held, value) == IF held = 0 THEN {value} ELSE {held, value}
    IN
    /\ subject = "app"
    /\ request[session] # None
    /\ \/ /\ request[session].pc = 85
          /\ \E hire_threshold \in st_slider(widgets[session].hire_threshold,
                                             Config.HIRE_THRESHOLD) :
               /\ request' = [request EXCEPT ![session] =
                     [request[session] EXCEPT
                         !.pc = 93, !.hire_threshold = hire_threshold]]
               /\ widgets' = [widgets EXCEPT
                                 ![session].hire_threshold = hire_threshold]
          /\ UNCHANGED Config
       \/ /\ request[session].pc = 93
          /\ \E strong_hire_threshold \in
                  st_slider(widgets[session].strong_hire_threshold,
                            Config.STRONG_HIRE_THRESHOLD) :
               /\ request' = [request EXCEPT ![session] =
                     [request[session] EXCEPT
                         !.pc = 102,
                         !.strong_hire_threshold = strong_hire_threshold]]
               /\ widgets' = [widgets EXCEPT
                     ![session].strong_hire_threshold = strong_hire_threshold]
          /\ UNCHANGED Config
       \/ /\ request[session].pc = 102
          /\ Config' = [Config EXCEPT
                           !.HIRE_THRESHOLD = request[session].hire_threshold]
          /\ request' = [request EXCEPT ![session] =
                [request[session] EXCEPT !.pc = 103, !.hire_threshold = 0]]
          /\ UNCHANGED widgets
    /\ op' = "run"
    /\ args' = None
    /\ result' = None
    /\ UNCHANGED <<subject, candidate_skills, required_skills, match_result,
                   matcher, engine, session_state>>

\* line 103 writes Config.STRONG_HIRE_THRESHOLD, and the run goes on to
\* the line where it waits or ends
SidebarRendered(session) ==
    /\ subject = "app"
    /\ request[session] # None
    /\ request[session].pc = 103
    /\ Config' = [Config EXCEPT !.STRONG_HIRE_THRESHOLD =
                                   request[session].strong_hire_threshold]
    /\ result' = None
    /\ UNCHANGED <<subject, candidate_skills, required_skills, match_result,
                   matcher, engine, widgets>>

\* a run in which no button is pressed ends after the page is rendered
\* (run, lines 584-596)
EndRun(session) ==
    /\ SidebarRendered(session)
    /\ args' = None
    /\ request[session].input = "none"
    /\ request' = [request EXCEPT ![session] = None]
    /\ op' = "run"
    /\ UNCHANGED session_state

\* "Analyze Candidate" was pressed while self.chains is None
\* (render_analysis_section, lines 232-235)
AnalyzeWithoutApi(session) ==
    /\ SidebarRendered(session)
    /\ args' = None
    /\ request[session].input = "Analyze Candidate"
    /\ request' = [request EXCEPT ![session] = None]
    /\ op' = "render_analysis_section"
    /\ UNCHANGED session_state

\* "Analyze Candidate" was pressed: the run reaches run_analysis and calls
\* the LLM chains (render_analysis_section, lines 232-237; run_analysis,
\* lines 243-253)
StartAnalysis(session) ==
    /\ SidebarRendered(session)
    /\ args' = None
    /\ request[session].input = "Analyze Candidate"
    /\ request' = [request EXCEPT ![session] =
          [request[session] EXCEPT !.pc = 253, !.strong_hire_threshold = 0]]
    /\ op' = "run_complete_analysis"
    /\ UNCHANGED session_state

\* "Run New Analysis" was pressed (run, lines 590-593): the state is reset
\* and st.rerun() ends the run and asks for one more
RunNewAnalysis(session) ==
    /\ SidebarRendered(session)
    /\ args' = [session |-> session]
    /\ request[session].input = "Run New Analysis"
    /\ session_state' = [session_state EXCEPT ![session] = NewSessionState]
    /\ request' = [request EXCEPT ![session] =
          [request[session] EXCEPT !.pc = 593, !.strong_hire_threshold = 0]]
    /\ op' = "run_new_analysis"

\* AnalysisFailed with the flag set on the way out
AnalysisFailedMarksComplete(session) ==
    /\ subject = "app"
    /\ request[session] # None
    /\ request[session].pc = 253
    /\ args' = None
    /\ UNCHANGED <<subject, candidate_skills, required_skills, match_result,
                   matcher, Config, engine, widgets>>
    /\ request' = [request EXCEPT ![session] = None]
    /\ op' = "run_analysis_failed"
    /\ result' = None
    /\ session_state' =
         [session_state EXCEPT ![session].analysis_complete = TRUE]

\* the analysis fails: the chains return an error result (lines 258-260)
\* or raise an exception (lines 327-329), and the run ends
AnalysisFailed(session) ==
    /\ subject = "app"
    /\ request[session] # None
    /\ request[session].pc = 253
    /\ args' = None
    /\ UNCHANGED <<subject, candidate_skills, required_skills, match_result,
                   matcher, Config, engine, widgets>>
    /\ request' = [request EXCEPT ![session] = None]
    /\ op' = "run_analysis_failed"
    /\ result' = None
    /\ UNCHANGED session_state

\* the chains return an analysis: run_analysis scores it with the engine
\* of its run and stores the results (lines 258-318), then sleeps (line
\* 321); when the scoring raises, the run ends (lines 327-329)
Analyze(session) ==
    /\ subject = "app"
    /\ request[session] # None
    /\ request[session].pc = 253
    /\ args' = [session |-> session]
    /\ UNCHANGED <<subject, candidate_skills, required_skills, match_result,
                   matcher, Config, engine, widgets>>
    /\ op' = "run_analysis"
    /\ \E analysis \in AppAnalyses :
         \E final_results \in {run_analysis(request[session].scoring_engine,
                                            analysis)} :
             /\ result' = final_results
             /\ session_state' =
                  IF final_results.none
                  THEN session_state
                  ELSE [session_state EXCEPT ![session] =
                           [analysis_complete |-> TRUE,
                            analysis_results |-> final_results]]
             /\ request' =
                  [request EXCEPT ![session] =
                      IF final_results.none THEN None
                      ELSE [request[session] EXCEPT !.pc = 321]]

\* the sleep is over: run_analysis returns its results, run shows them
\* (lines 322-325 and 585-586) and the run ends
ShowResults(session) ==
    /\ subject = "app"
    /\ request[session] # None
    /\ request[session].pc = 321
    /\ args' = None
    /\ UNCHANGED <<subject, candidate_skills, required_skills, match_result,
                   matcher, Config, engine, widgets>>
    /\ request' = [request EXCEPT ![session] = None]
    /\ op' = "render_results"
    /\ result' = None
    /\ UNCHANGED session_state

NextApp ==
    \E session \in Sessions :
        \/ LoadPage(session)
        \/ MoveSlider(session)
        \/ PressButton(session)
        \/ Rerun(session)
        \/ LangHireApp(session)
        \/ render_sidebar(session)
        \/ EndRun(session)
        \/ AnalyzeWithoutApi(session)
        \/ StartAnalysis(session)
        \/ RunNewAnalysis(session)
        \/ AnalysisFailed(session)
        \/ Analyze(session)
        \/ ShowResults(session)

SpecApp == InitApp /\ [][NextApp]_vars

---------------------------------------------------------------------------
(* Specification of the text utilities of the matcher: a call of          *)
(* extract_skills_from_text or of normalize_skill on some text (the       *)
(* matcher keeps no state between calls)                                  *)

\* texts handed to extract_skills_from_text: every skill of the taxonomy,
\* every alternate form of the synonym table and some capitalised terms,
\* alone and with words before and after
ExtractTexts ==
    LET canonical == UNION {SetOf(skill_categories[k].skills) :
                               k \in DOMAIN skill_categories}
        alternate == UNION {SetOf(skill_synonyms[k].synonyms) :
                               k \in DOMAIN skill_synonyms}
        capitalised == { <<"P","y","t","h","o","n">>, <<"J","a","v","a","S","c","r","i","p","t">>, <<"C","+","+">>, <<"C","#">>,
                         <<"P","o","s","t","g","r","e","S","Q","L">>, <<"N","o","d","e",".","J","S">>, <<"M","L">>, <<"K","8","s">>,
                         <<"É","J","a","v","a">>, <<"P","y","t","h","o","n","ß">>,
                         \* "Java" and "go" before a capital omega, "K8s" with the kelvin sign
                         <<"J","a","v","a","U+03A9">>, <<"g","o","U+03A9">>, <<"U+212A","8","s">> }
    IN  {lead \o term \o trail :
            lead \in { <<>>, <<"S","e","n","i","o","r"," ">> },
            term \in canonical \cup alternate \cup capitalised,
            trail \in { <<>>, <<" ","d","e","v","e","l","o","p","e","r">>, <<"s","c","r","i","p","t">>, <<","," ","J","S"," ","a","n","d"," ","N","o","d","e">>,
                       \* an ideographic space, then "Go"
                       <<"U+3000","G","o">> }}

\* a skill name as a resume writes it: a qualifier, the name, then a
\* version, a parenthetical and a closing word in one of the six orders
Decoration(d) ==
    d.qualifier \o d.base \o
    CASE d.order = 1 -> d.version \o d.parenthetical \o d.closing
      [] d.order = 2 -> d.version \o d.closing \o d.parenthetical
      [] d.order = 3 -> d.parenthetical \o d.version \o d.closing
      [] d.order = 4 -> d.parenthetical \o d.closing \o d.version
      [] d.order = 5 -> d.closing \o d.version \o d.parenthetical
      [] d.order = 6 -> d.closing \o d.parenthetical \o d.version

Decorations ==
    [qualifier     : { <<>>, <<"E","x","p","e","r","t"," ">>, <<"e","x","p","e","r","i","e","n","c","e","d"," "," ">>, <<" ","A","d","v","a","n","c","e","d"," ">> },
     base          : { <<"P","y","t","h","o","n">>, <<"R","e","a","c","t",".","j","s">> },
     version       : { <<>>, <<" ","3">>, <<" ","3",".","9","+">> },
     parenthetical : { <<>>, <<" ","(","5","+"," ","y","e","a","r","s",")">> },
     closing       : { <<>>, <<" ","S","k","i","l","l","s">>, <<" ","e","x","p","e","r","i","e","n","c","e">>, <<" ","E","x","p","e","r","i","e","n","c","e","s">>, <<" ","s","k","i","l","l">> },
     order         : 1..6]

\* names handed to normalize_skill
NormalizeInputs ==
    {Decoration(d) : d \in Decorations}
    \cup { <<>>, <<"e","x","p","e","r","i","e","n","c","e","d">>, <<"e","x","p","e","r","t"," ","s","k","i","l","l","s">>, <<"p","y","t","h","o","n"," ","3",".">>, <<"p","y","t","h","o","n"," ","2"," ","3">>,
           <<"a"," ","(","(","b",")",")"," ","c">>, <<"(","x",")"," ","g","o">>, <<"A","d","v","a","n","c","e","d"," ","J","a","v","a","S","c","r","i","p","t"," ","S","k","i","l","l","s">>,
           <<"a","d","v","a","n","c","e","d","\t","g","o","\n","(","1",")">>, <<"C","+","+"," ","1","7">>, <<"e","x","p","e","r","t","i","s","e"," ","(","i","n"," ","u","i">>,
           \* "Expert" chr(160) "ÉCOLE" chr(11) "(1)" and chr(133) "Go" chr(31) "3" chr(28)
           <<"E","x","p","e","r","t"," ","É","C","O","L","E","","(","1",")">>, <<"","G","o","","3","">>,
           \* "Expert" em space "Go" ideographic space; "Swift" and a version
           \* in arabic-indic digits; a capital I with dot above
           <<"E","x","p","e","r","t","U+2003","G","o","U+3000">>, <<"S","w","i","f","t"," ","U+0661","U+0662">>, <<"A","d","v","a","n","c","e","d"," ","U+0130","O","S"," ","(","1",")">> }

InitText ==
    /\ subject = "text"
    /\ op = "init"
    /\ candidate_skills = EmptyDict
    /\ required_skills = EmptyDict
    /\ match_result = NewMatchResult
    /\ matcher = NewSkillMatcher
    /\ Config = DefaultConfig
    /\ engine = NewScoringEngine(Config)
    /\ args = None
    /\ result = None
    /\ request = None
    /\ session_state = [s \in Sessions |-> NewSessionState]
    /\ widgets = [s \in Sessions |->
                    [hire_threshold |-> 0, strong_hire_threshold |-> 0]]

ExtractSkills ==
    /\ subject = "text"
    /\ op = "init"
    /\ \E text \in ExtractTexts :
         /\ args' = [text |-> text]
         /\ result' = extract_skills_from_text(matcher, text)
    /\ op' = "extract_skills_from_text"
    /\ UNCHANGED <<subject, candidate_skills, required_skills, match_result,
                   matcher, Config, engine, request, session_state, widgets>>

NormalizeSkill ==
    /\ subject = "text"
    /\ op = "init"
    /\ \E skill \in NormalizeInputs :
         /\ args' = [skill |-> skill]
         /\ result' = normalize_skill(skill)
    /\ op' = "normalize_skill"
    /\ UNCHANGED <<subject, candidate_skills, required_skills, match_result,
                   matcher, Config, engine, request, session_state, widgets>>

NextText == ExtractSkills \/ NormalizeSkill

SpecText == InitText /\ [][NextText]_vars

---------------------------------------------------------------------------
(* Specification of a caller of the matcher and the engine that holds two *)
(* raw texts and the two analyses of the LLM chains and makes the calls of *)
(* lines 267, 268, 269, 276, 277, 281 and 286 of app.py, each with         *)
(* arguments it holds.  The caller "run_analysis" makes every call once,   *)
(* in the order of the lines (app.py 267-288); the caller "any" makes the  *)
(* calls in any order and any number of times: the match needs the two     *)
(* extracted maps, the skills score a match result, the overall score the  *)
(* three breakdowns.  request holds what the caller holds between the      *)
(* calls: the texts, the analyses, the breakdowns obtained so far and the  *)
(* lines of the calls made (made).                                         *)

InitRequest ==
    LET \* "Go, Java" capital omega " and " kelvin sign "8s" ideographic
        \* space "AWS"
        beyond_latin1 == <<"G","o",","," ","J","a","v","a","U+03A9"," ","a","n","d"," ","U+212A","8","s","U+3000","A","W","S">>
        nine_skills == <<"R",","," ","G","o",","," ","P","H","P",","," ","J","a","v","a",","," ","R","u","s","t",";"," ","C","S","S",","," ","V","u","e",","," ","A","W","S",","," ","G","C","P">>
        two_synonyms == <<"J","S"," ","a","n","d"," ","K","8","s">>
        years == Str(<<"8"," ","y","e","a","r","s",","," ","p","r","o","m","o","t","e","d"," ","t","o"," ","m","a","n","a","g","e","r">>)
        range == Str(<<"2","0","1","0","-","2","0","2","1",":"," ","p","r","o","m","o","t","e","d"," ","t","o"," ","s","e","n","i","o","r"," ","l","e","a","d",","," ","m","a","n","a","g","e","r",","," ","d","i","r","e","c","t","o","r">>)
        degree == Str(<<"P","h","D"," ","i","n"," ","S","t","a","t","i","s","t","i","c","s">>)
        keywords == Str(<<"A","W","S"," ","c","e","r","t","i","f","i","e","d",","," ","A","z","u","r","e",","," ","P","M","P",","," ","a","g","i","l","e",";"," ","a","w","a","r","d",","," ","r","e","c","o","g","n","i","t","i","o","n",","," ","p","u","b","l","i","s","h","e","d",","," ","p","a","t","e","n","t",";"," ","i","n","c","r","e","a","s","e","d",","," ","i","m","p","r","o","v","e","d",","," ","r","e","d","u","c","e","d">>)
        required == Str(<<"M","a","s","t","e","r"," ","i","n"," ","E","n","g","i","n","e","e","r","i","n","g">>)
        \* what run_analysis is called with
        requests ==
            {[resume_text |-> resume_text, jd_text |-> jd_text,
              resume_analysis |-> resume_analysis, jd_analysis |-> jd_analysis] :
                resume_text \in {<<>>, beyond_latin1, nine_skills},
                jd_text \in {<<>>, two_synonyms, nine_skills},
                resume_analysis \in
                   {ResumeData(w, e, a) : w \in {AbsentText, years, range},
                                          e \in {AbsentText, degree},
                                          a \in {AbsentText, keywords}}
                   \cup {NonDictResume},
                jd_analysis \in {JdData(AbsentText), JdData(required), NonDictJd}}
        \* what the caller that follows no order holds
        held ==
            {[resume_text |-> texts[1], jd_text |-> texts[2],
              resume_analysis |-> analyses[1], jd_analysis |-> analyses[2]] :
                texts \in {<<<<>>, two_synonyms>>,
                           <<beyond_latin1, two_synonyms>>,
                           <<beyond_latin1, nine_skills>>,
                           <<nine_skills, nine_skills>>},
                analyses \in
                   {<<ResumeData(AbsentText, AbsentText, AbsentText),
                      JdData(AbsentText)>>,
                    <<ResumeData(years, degree, AbsentText), JdData(required)>>,
                    <<ResumeData(range, degree, keywords), JdData(required)>>,
                    <<ResumeData(range, AbsentText, keywords), NonDictJd>>,
                    <<NonDictResume, JdData(required)>>,
                    <<NonDictResume, NonDictJd>>}}
    IN  /\ subject = "request"
        /\ op = "init"
        /\ candidate_skills = EmptyDict
        /\ required_skills = EmptyDict
        /\ match_result = NewMatchResult
        /\ matcher = NewSkillMatcher
        /\ Config = DefaultConfig
        /\ engine = NewScoringEngine(Config)
        /\ args = None
        /\ result = None
        /\ session_state = [s \in Sessions |-> NewSessionState]
        /\ widgets = [s \in Sessions |->
                    [hire_threshold |-> 0, strong_hire_threshold |-> 0]]
        /\ \E caller \in {"run_analysis", "any"} :
             \E r \in IF caller = "any" THEN held ELSE requests :
                request = [caller |-> caller,
                           made |-> {},
                           resume_text |-> r.resume_text,
                           jd_text |-> r.jd_text,
                           resume_analysis |-> r.resume_analysis,
                           jd_analysis |-> r.jd_analysis,
                           skills_score |-> None,
                           experience_score |-> None,
                           education_score |-> None]

\* line 267
ExtractCandidateSkills ==
    /\ subject = "request"
    /\ request.caller = "run_analysis" => request.made = {}
    /\ op' = "extract_skills_from_text"
    /\ args' = [text |-> request.resume_text]
    /\ result' = extract_skills_from_text(matcher, request.resume_text)
    /\ candidate_skills' = result'
    /\ request' = [request EXCEPT !.made = @ \cup {267}]
    /\ UNCHANGED <<subject, required_skills, match_result, matcher, Config,
                   engine, session_state, widgets>>

\* line 268
ExtractJdSkills ==
    /\ subject = "request"
    /\ request.caller = "run_analysis" => request.made = {267}
    /\ op' = "extract_skills_from_text"
    /\ args' = [text |-> request.jd_text]
    /\ result' = extract_skills_from_text(matcher, request.jd_text)
    /\ required_skills' = result'
    /\ request' = [request EXCEPT !.made = @ \cup {268}]
    /\ UNCHANGED <<subject, candidate_skills, match_result, matcher, Config,
                   engine, session_state, widgets>>

\* line 269 with a matcher that empties the required map as it reads it
MatchRequestSkillsInPlace ==
    /\ subject = "request"
    /\ {267, 268} \subseteq request.made
    /\ request.caller = "run_analysis" => request.made = {267, 268}
    /\ op' = "calculate_skill_match_score"
    /\ args' = [candidate_skills |-> candidate_skills,
                required_skills |-> required_skills]
    /\ result' = calculate_skill_match_score(candidate_skills, required_skills)
    /\ match_result' = result'
    /\ required_skills' = EmptyDict
    /\ request' = [request EXCEPT !.made = @ \cup {269}]
    /\ UNCHANGED <<subject, candidate_skills, matcher, Config, engine,
                   session_state, widgets>>

\* line 269
MatchRequestSkills ==
    /\ subject = "request"
    /\ {267, 268} \subseteq request.made
    /\ request.caller = "run_analysis" => request.made = {267, 268}
    /\ op' = "calculate_skill_match_score"
    /\ args' = [candidate_skills |-> candidate_skills,
                required_skills |-> required_skills]
    /\ result' = calculate_skill_match_score(candidate_skills, required_skills)
    /\ match_result' = result'
    /\ request' = [request EXCEPT !.made = @ \cup {269}]
    /\ UNCHANGED <<subject, candidate_skills, required_skills, matcher, Config,
                   engine, session_state, widgets>>

\* line 276
ScoreRequestSkills ==
    /\ subject = "request"
    /\ {269} \subseteq request.made
    /\ request.caller = "run_analysis" => request.made = {267, 268, 269}
    /\ op' = "calculate_skills_score"
    /\ args' = [skill_analysis |-> AsSkillAnalysis(match_result)]
    /\ result' = calculate_skills_score(AsSkillAnalysis(match_result))
    /\ request' = [request EXCEPT !.made = @ \cup {276},
                                  !.skills_score = result']
    /\ UNCHANGED <<subject, candidate_skills, required_skills, match_result,
                   matcher, Config, engine, session_state, widgets>>

\* lines 277-280
ScoreRequestExperience ==
    /\ subject = "request"
    /\ request.caller = "run_analysis" => request.made = {267, 268, 269, 276}
    /\ op' = "calculate_experience_score"
    /\ args' = [experience_analysis |-> EmptyDict,
                resume_data |-> request.resume_analysis]
    /\ result' = calculate_experience_score(EmptyDict, request.resume_analysis)
    /\ request' = [request EXCEPT !.made = @ \cup {277},
                                  !.experience_score = result']
    /\ UNCHANGED <<subject, candidate_skills, required_skills, match_result,
                   matcher, Config, engine, session_state, widgets>>

\* lines 281-284
ScoreRequestEducation ==
    /\ subject = "request"
    /\ request.caller = "run_analysis" => request.made = {267, 268, 269, 276, 277}
    /\ op' = "calculate_education_score"
    /\ args' = [resume_data |-> request.resume_analysis,
                jd_data |-> request.jd_analysis]
    /\ result' = calculate_education_score(request.resume_analysis,
                                           request.jd_analysis)
    /\ request' = [request EXCEPT !.made = @ \cup {281},
                                  !.education_score = result']
    /\ UNCHANGED <<subject, candidate_skills, required_skills, match_result,
                   matcher, Config, engine, session_state, widgets>>

\* lines 286-288
ScoreRequestOverall ==
    /\ subject = "request"
    /\ {276, 277, 281} \subseteq request.made
    /\ request.caller = "run_analysis" => request.made = {267, 268, 269, 276, 277, 281}
    /\ op' = "calculate_overall_score"
    /\ args' = [skills_score |-> AsBreakdown(request.skills_score),
                experience_score |-> AsBreakdown(request.experience_score),
                education_score |-> AsBreakdown(request.education_score),
                resume_data |-> request.resume_analysis]
    /\ result' = calculate_overall_score(engine,
                     AsBreakdown(request.skills_score),
                     AsBreakdown(request.experience_score),
                     AsBreakdown(request.education_score),
                     request.resume_analysis)
    /\ request' = [request EXCEPT !.made = @ \cup {286}]
    /\ UNCHANGED <<subject, candidate_skills, required_skills, match_result,
                   matcher, Config, engine, session_state, widgets>>

NextRequest ==
    \/ ExtractCandidateSkills
    \/ ExtractJdSkills
    \/ MatchRequestSkills
    \/ ScoreRequestSkills
    \/ ScoreRequestExperience
    \/ ScoreRequestEducation
    \/ ScoreRequestOverall

SpecRequest == InitRequest /\ [][NextRequest]_vars

---------------------------------------------------------------------------
(* Every component *)

Init == InitMatch \/ InitScore \/ InitApp \/ InitText \/ InitRequest

Next == NextMatch \/ NextScore \/ NextApp \/ NextText \/ NextRequest

Spec == Init /\ [][Next]_vars

\* the matcher and the engine, called one operation at a time or by a
\* caller that chains them
SpecCore ==
    /\ InitMatch \/ InitScore \/ InitRequest
    /\ [][NextMatch \/ NextScore \/ NextRequest]_vars

---------------------------------------------------------------------------
(* Properties of calculate_skill_match_score (checked under SpecMatch) *)

AllSkills == UNION {SkillsOf(c) : c \in Categories}

Matched == subject = "matcher" /\ op \in {"match", "match_added"}

\* set(candidate_skills.get(c, [])) and set(required_skills.get(c, []))
CandidateSet(c) == SetOf(DictGet(candidate_skills, c, <<>>))
RequiredSet(c)  == SetOf(DictGet(required_skills, c, <<>>))

\* the (category, skill) pairs the job requires, and those the candidate has
RequiredPairs == {p \in Categories \X AllSkills : p[2] \in RequiredSet(p[1])}
MatchedPairs  == {p \in RequiredPairs : p[2] \in CandidateSet(p[1])}

\* C2: for each category with a non-empty required set, exact_matches is
\* candidate /\ required, missing_skills is required - candidate and
\* category_score is |exact| / |required| x 100; overall_score is
\* (sum |exact|) / (sum |required|) x 100 over those categories and 0 when
\* nothing is required; {python, java} against {python, javascript} gives
\* exact {python}, missing {javascript}, category score 50 and overall 50.
C2_MatchFormulas ==
    Matched =>
      LET scored == {c \in Categories : RequiredSet(c) # {}}
      IN  /\ scored \subseteq DOMAIN match_result.exact_matches
          /\ scored \subseteq DOMAIN match_result.missing_skills
          /\ scored \subseteq DOMAIN match_result.category_scores
          /\ \A c \in scored :
               /\ match_result.exact_matches[c] = CandidateSet(c) \cap RequiredSet(c)
               /\ match_result.missing_skills[c] = RequiredSet(c) \ CandidateSet(c)
               /\ match_result.category_scores[c] =
                    Share(Cardinality(CandidateSet(c) \cap RequiredSet(c)),
                          Cardinality(RequiredSet(c)))
          /\ RequiredPairs # {} =>
               match_result.overall_score =
                 Share(Cardinality(MatchedPairs), Cardinality(RequiredPairs))
          /\ RequiredPairs = {} => match_result.overall_score = PyInt(0)
          /\ ( /\ candidate_skills = ("programming_languages" :> <<"python", "java">>)
               /\ required_skills = ("programming_languages" :> <<"python", "javascript">>) )
             => /\ match_result.exact_matches["programming_languages"] = {"python"}
                /\ match_result.missing_skills["programming_languages"] = {"javascript"}
                /\ match_result.category_scores["programming_languages"] = PyInt(50)
                /\ match_result.overall_score = PyInt(50)

C2_Witness ==
    /\ Matched
    /\ candidate_skills = ("programming_languages" :> <<"python", "java">>)
    /\ required_skills = ("programming_languages" :> <<"python", "javascript">>)
    /\ match_result.overall_score = PyInt(50)

\* C3: a map with at least one non-empty category matched against itself
\* scores 100 overall and 100 in every category, with no missing skill.
C3_SelfMatchIsPerfect ==
    ( /\ Matched
      /\ candidate_skills = required_skills
      /\ \E c \in DOMAIN required_skills : required_skills[c] # <<>> )
    => /\ match_result.overall_score = PyInt(100)
       /\ DOMAIN match_result.category_scores
            = {c \in DOMAIN required_skills : required_skills[c] # <<>>}
       /\ \A c \in DOMAIN match_result.category_scores :
            match_result.category_scores[c] = PyInt(100)
       /\ \A c \in DOMAIN match_result.missing_skills :
            match_result.missing_skills[c] = {}

C3_Witness ==
    /\ Matched
    /\ candidate_skills = required_skills
    /\ Cardinality(DOMAIN match_result.category_scores) = 2
    /\ match_result.total_required = 3
    /\ match_result.overall_score = PyInt(100)

\* C4: adding to the candidate's list of a category a skill the job requires
\* in that category lowers neither a category score nor the overall score.
C4_Monotonic ==
    [][ (subject = "matcher" /\ op' = "match_added") =>
          /\ DOMAIN match_result.category_scores
               \subseteq DOMAIN match_result'.category_scores
          /\ \A c \in DOMAIN match_result.category_scores :
               Ge(match_result'.category_scores[c], match_result.category_scores[c])
          /\ Ge(match_result'.overall_score, match_result.overall_score) ]_vars

C4_Witness ==
    /\ subject = "matcher"
    /\ op = "match_added"
    /\ \E c \in DOMAIN match_result.category_scores :
         /\ match_result.category_scores[c] = PyInt(100)
         /\ Cardinality(RequiredSet(c)) = 2
         /\ Len(candidate_skills[c]) = 2

\* C5: a category that the required map does not hold, or holds with an
\* empty list, is no key of category_scores whatever the candidate lists
\* for it, and the totals count the other categories only.
C5_UnrequiredCategorySkipped ==
    Matched =>
      /\ \A c \in Categories :
           RequiredSet(c) = {} =>
             /\ c \notin DOMAIN match_result.category_scores
             /\ c \notin DOMAIN match_result.exact_matches
             /\ c \notin DOMAIN match_result.missing_skills
      /\ match_result.total_required = Cardinality(RequiredPairs)
      /\ match_result.total_matched = Cardinality(MatchedPairs)

C5_Witness ==
    /\ Matched
    /\ "databases" \in DOMAIN required_skills
    /\ required_skills["databases"] = <<>>
    /\ CandidateSet("databases") # {}
    /\ "programming_languages" \notin DOMAIN candidate_skills
    /\ DOMAIN match_result.category_scores = {"programming_languages"}
    /\ match_result.total_required = 2

---------------------------------------------------------------------------
(* Properties of the scoring engine (checked under SpecScore; C1 under
   SpecCore) *)

\* the number of skills a dict category -> collection lists
CountOf(dict) ==
    Cardinality(UNION {{<<c, skill>> : skill \in dict[c]} : c \in DOMAIN dict})

InRange(x) == IsNum(x) /\ Ge(x, PyInt(0)) /\ Le(x, PyInt(100))

\* x is the double of a number of two decimals: rounding leaves it alone
TwoDecimals(x) == Round2(x) = x

\* x and y are 0.005 apart at most, give or take the last bits of a double
Near(x, y) ==
    /\ Le(Sub(x, y), Num(5001, 1000000))
    /\ Le(Sub(y, x), Num(5001, 1000000))

\* the total_score handed in with a breakdown is a score, or the key is
\* missing (the code reads 0)
ScoreHandedIn(breakdown) ==
    breakdown.total_score.t = "absent" \/ InRange(breakdown.total_score)

\* C1: every category score and overall score of a match and the
\* total_score of the experience and education breakdowns lie in [0, 100]
\* for every input; technical_skills is at most 100 for every input, and
\* the total_score of the skills breakdown lies in [0, 100] when the
\* overall_score handed in is not negative; the overall_score of the
\* overall result lies in [0, 100] when the three totals handed in do, as
\* the totals of the engine's own breakdowns always do.
C1_ScoresInRange ==
    /\ Matched =>
         /\ InRange(match_result.overall_score)
         /\ \A c \in DOMAIN match_result.category_scores :
              InRange(match_result.category_scores[c])
    /\ op = "calculate_skill_match_score" =>
         /\ InRange(result.overall_score)
         /\ \A c \in DOMAIN result.category_scores :
              InRange(result.category_scores[c])
    /\ op = "calculate_skills_score" =>
         /\ Le(result.technical_skills, PyInt(100))
         /\ (\/ ~IsNum(args.skill_analysis.overall_score)
             \/ Ge(args.skill_analysis.overall_score, PyInt(0)))
              => InRange(result.total_score)
    /\ op \in {"calculate_experience_score", "calculate_education_score"}
         => InRange(result.total_score)
    /\ (/\ op = "calculate_overall_score"
        /\ ~result.raised
        /\ ScoreHandedIn(args.skills_score)
        /\ ScoreHandedIn(args.experience_score)
        /\ ScoreHandedIn(args.education_score))
         => InRange(result.overall_score)
    /\ (subject = "request" /\ op = "calculate_overall_score")
         => /\ ScoreHandedIn(args.skills_score)
            /\ ScoreHandedIn(args.experience_score)
            /\ ScoreHandedIn(args.education_score)

\* C1 as stated: the scores lie in [0, 100] for every scoring input.
C1_InRangeForEveryInput ==
    /\ Matched =>
         /\ InRange(match_result.overall_score)
         /\ \A c \in DOMAIN match_result.category_scores :
              InRange(match_result.category_scores[c])
    /\ op \in {"calculate_skills_score", "calculate_experience_score",
               "calculate_education_score"} => InRange(result.total_score)
    /\ (op = "calculate_overall_score" /\ ~result.raised)
         => InRange(result.overall_score)

C1_Witness ==
    /\ op = "calculate_overall_score"
    /\ ~result.raised
    /\ result.component_scores.skills = PyInt(100)
    /\ result.component_scores.achievements = PyInt(100)
    /\ result.overall_score = PyInt(90)

\* C6: technical_skills = min(overall_score, 100); skill_depth is 90, 75, 60
\* or 40 for at least 8, 5, 3 or fewer exact matches; skill_relevance is
\* exact / (exact + missing) x 100, and 50 when both counts are 0;
\* total_score is 0.4 technical + 0.3 depth + 0.3 relevance rounded to two
\* decimals (a multiple of 0.01 within 0.005 of the sum); overall_score 75
\* with 3 exact matches and 1 missing gives total_score 70.5.
C6_SkillsScoreFormula ==
    (op = "calculate_skills_score" /\ ~result.error) =>
      LET skill_analysis == args.skill_analysis
          overall == IF skill_analysis.overall_score.t = "absent"
                     THEN PyInt(0) ELSE skill_analysis.overall_score
          exact   == CountOf(skill_analysis.exact_matches.v)
          missing == CountOf(skill_analysis.missing_skills.v)
          technical == IF Le(overall, PyInt(100)) THEN overall ELSE PyInt(100)
          depth == IF exact >= 8 THEN 90 ELSE IF exact >= 5 THEN 75
                   ELSE IF exact >= 3 THEN 60 ELSE 40
          relevance == IF exact + missing = 0 THEN PyInt(50)
                       ELSE Share(exact, exact + missing)
          weighted == Add(Add(Mul(technical, Num(4, 10)),
                              Mul(PyInt(depth), Num(3, 10))),
                          Mul(relevance, Num(3, 10)))
      IN  /\ result.technical_skills = technical
          /\ result.skill_depth = PyInt(depth)
          /\ result.skill_relevance = relevance
          /\ Near(result.total_score, weighted)
          /\ TwoDecimals(result.total_score)
          /\ (overall = PyInt(75) /\ exact = 3 /\ missing = 1)
               => result.total_score = Num(705, 10)

\* C6 as stated: total_score is exactly 0.4 technical + 0.3 depth
\* + 0.3 relevance of the sub-scores the breakdown reports.
C6_TotalIsExactWeightedSum ==
    (op = "calculate_skills_score" /\ ~result.error) =>
        result.total_score =
            Add(Add(Mul(result.technical_skills, Num(4, 10)),
                    Mul(result.skill_depth, Num(3, 10))),
                Mul(result.skill_relevance, Num(3, 10)))

C6_Witness ==
    /\ op = "calculate_skills_score"
    /\ ~result.error
    /\ args.skill_analysis.overall_score = PyInt(75)
    /\ CountOf(args.skill_analysis.exact_matches.v) = 3
    /\ CountOf(args.skill_analysis.missing_skills.v) = 1
    /\ result.skill_depth = PyInt(60)
    /\ result.total_score = Num(705, 10)

\* the decision and confidence the thresholds assign to a score
Classified(overall_score, hire, strong_hire) ==
    IF Ge(overall_score, PyInt(strong_hire)) THEN <<"Strong Hire", "High">>
    ELSE IF Ge(overall_score, PyInt(hire)) THEN <<"Hire", "Medium-High">>
    ELSE IF Ge(overall_score, PyInt(50)) THEN <<"Maybe", "Medium">>
    ELSE <<"Don't Hire", "High">>

\* C7: a score is recommended Strong Hire (High) from the strong-hire
\* threshold up, else Hire (Medium-High) from the hire threshold up, else
\* Maybe (Medium) from 50 up, else Don't Hire (High); under the thresholds
\* 70 and 85, 85.0 is Strong Hire, 84.99 Hire, 69.99 Maybe, 49.99 Don't Hire.
C7_Recommendation ==
    /\ op = "_generate_recommendation" =>
         /\ <<result.decision, result.confidence>>
              = Classified(args.overall_score, engine.hire_threshold,
                           engine.strong_hire_threshold)
         /\ (engine.hire_threshold = 70 /\ engine.strong_hire_threshold = 85) =>
              /\ args.overall_score = PyInt(85) => result.decision = "Strong Hire"
              /\ args.overall_score = Num(8499, 100) => result.decision = "Hire"
              /\ args.overall_score = Num(6999, 100) => result.decision = "Maybe"
              /\ args.overall_score = Num(4999, 100) => result.decision = "Don't Hire"
    /\ (op = "calculate_overall_score" /\ ~result.raised) =>
         <<result.recommendation.decision, result.recommendation.confidence>>
           = Classified(result.recommendation.score, engine.hire_threshold,
                        engine.strong_hire_threshold)

C7_Witness ==
    /\ op = "_generate_recommendation"
    /\ engine.hire_threshold = 70
    /\ engine.strong_hire_threshold = 85
    /\ args.overall_score = Num(8499, 100)
    /\ result.decision = "Hire"
    /\ result.confidence = "Medium-High"

\* C9: none of the four scoring entry points lets an exception reach its
\* caller, malformed inputs included.
C9_NoExceptionEscapes ==
    op \in {"calculate_skills_score", "calculate_experience_score",
            "calculate_education_score", "calculate_overall_score"}
      => ~result.raised

\* C10: a breakdown returned with an error field has every sub-score at 0.
C10_ErrorZeroesSubScores ==
    /\ (op = "calculate_skills_score" /\ result.error) =>
         /\ result.technical_skills = PyInt(0)
         /\ result.skill_depth = PyInt(0)
         /\ result.skill_relevance = PyInt(0)
         /\ result.total_score = PyInt(0)
    /\ (op = "calculate_experience_score" /\ result.error) =>
         /\ result.years_of_experience = PyInt(0)
         /\ result.role_relevance = PyInt(0)
         /\ result.industry_match = PyInt(0)
         /\ result.career_progression = PyInt(0)
         /\ result.total_score = PyInt(0)
    /\ (op = "calculate_education_score" /\ result.error) =>
         /\ result.degree_match = PyInt(0)
         /\ result.institution_quality = PyInt(0)
         /\ result.field_relevance = PyInt(0)
         /\ result.certifications = PyInt(0)
         /\ result.total_score = PyInt(0)

---------------------------------------------------------------------------
(* Properties of the application (checked under SpecApp) *)

\* C8: the thresholds that the sidebar has written to Config before
\* calculate_overall_score is invoked are the thresholds that invocation
\* classifies the overall score against.
C8_ThresholdsSetBeforeScoringAreUsed ==
    (op = "run_analysis" /\ ~result.none) =>
        LET recommendation == result.scoring.overall.recommendation
        IN  <<recommendation.decision, recommendation.confidence>>
              = Classified(recommendation.score, Config.HIRE_THRESHOLD,
                           Config.STRONG_HIRE_THRESHOLD)


---------------------------------------------------------------------------
(* Properties of extract_skills_from_text and normalize_skill (checked    *)
(* under SpecText)                                                        *)

Extracted == op = "extract_skills_from_text"

\* the terms whose mention makes the extractor report a skill: its
\* canonical name and the alternate forms the synonym table lists for it
TermsOf(skill) ==
    {skill} \cup UNION {SetOf(skill_synonyms[k].synonyms) :
                          k \in {j \in DOMAIN skill_synonyms :
                                   skill_synonyms[j].main_skill = skill}}

\* the claims' notion of a stand-alone token: term occurs in text at
\* position i with no letter, digit or underscore touching it on either
\* side (white space, punctuation or an end of the text delimits it)
OwnWordAt(term, text, i) ==
    /\ StartsAt(text, i, term)
    /\ i = 1 \/ ~IsWord(text[i - 1])
    /\ i + Len(term) > Len(text) \/ ~IsWord(text[i + Len(term)])

OwnWordIn(term, text) == \E i \in 1..Len(text) : OwnWordAt(term, text, i)

\* a word boundary lies between the characters i - 1 and i of text: of the
\* two, exactly one is a letter, a digit or the underscore (an end of the
\* text counts as none)
BoundaryAt(text, i) ==
    LET InWord(k) == k \in DOMAIN text /\ IsWord(text[k])
    IN  InWord(i - 1) # InWord(i)

\* term occurs in text with a word boundary on both sides
DelimitedIn(term, text) ==
    \E i \in 1..Len(text) :
       /\ StartsAt(text, i, term)
       /\ BoundaryAt(text, i)
       /\ BoundaryAt(text, i + Len(term))

\* C11: a skill is reported only if one of its terms (the canonical name or
\* a synonym) occurs in the lower-cased text with a word boundary on both
\* sides; a term that begins and ends with a letter or a digit is then a
\* word of its own, never a part of a longer word; "javascript developer"
\* does not report "java".
C11_OnlyDelimitedTermsReported ==
    Extracted =>
      /\ \A category \in DOMAIN result :
           \A k \in DOMAIN result[category] :
              \E term \in TermsOf(result[category][k]) :
                 /\ DelimitedIn(term, Lower(args.text))
                 /\ (IsWord(term[1]) /\ IsWord(term[Len(term)]))
                      => OwnWordIn(term, Lower(args.text))
      /\ args.text = <<"j","a","v","a","s","c","r","i","p","t"," ","d","e","v","e","l","o","p","e","r">>
           => <<"j","a","v","a">> \notin SetOf(DictGet(result, "programming_languages", <<>>))

C11_Witness ==
    /\ Extracted
    /\ args.text = <<"j","a","v","a","s","c","r","i","p","t"," ","d","e","v","e","l","o","p","e","r">>
    /\ result = [programming_languages |-> << <<"j","a","v","a","s","c","r","i","p","t">> >>]

\* C12: every canonical skill that occurs in the text as a word of its own,
\* in any letter case, is reported under its category.
C12_StandAloneSkillReported ==
    Extracted =>
      \A k \in DOMAIN skill_categories :
         \A skill \in SetOf(skill_categories[k].skills) :
            OwnWordIn(skill, Lower(args.text))
              => skill \in SetOf(DictGet(result, skill_categories[k].category, <<>>))

\* the categories whose list holds a skill
CategoriesOf(skill) ==
    {skill_categories[k].category :
        k \in {j \in DOMAIN skill_categories :
                 skill \in SetOf(skill_categories[j].skills)}}

\* C13: every canonical entry of the synonym table belongs to exactly one
\* category, and when an alternate form of an entry is mentioned in the
\* text the canonical name is reported under that category.
C13_SynonymReportedAsCanonical ==
    Extracted =>
      \A k \in DOMAIN skill_synonyms :
         /\ Cardinality(CategoriesOf(skill_synonyms[k].main_skill)) = 1
         /\ (\E j \in DOMAIN skill_synonyms[k].synonyms :
                _skill_mentioned(skill_synonyms[k].synonyms[j], Lower(args.text)))
              => \E category \in CategoriesOf(skill_synonyms[k].main_skill) :
                    skill_synonyms[k].main_skill
                        \in SetOf(DictGet(result, category, <<>>))

\* C15: a name written as qualifier, base name, version, parenthetical and
\* closing word (experience, experiences, skill, skills) in any combination
\* normalizes to the lower-cased base name.
C15_DecorationsStripped ==
    op = "normalize_skill" =>
      \A d \in Decorations :
         args.skill = Decoration(d) => result = Lower(d.base)

\* C16: the keys of the returned map are categories with at least one
\* skill found, every listed skill is a canonical skill of its category,
\* and no skill is listed twice under a category.
C16_ExtractedMapWellFormed ==
    Extracted =>
      \A category \in DOMAIN result :
         /\ result[category] # <<>>
         /\ \A k \in DOMAIN result[category] :
              category \in CategoriesOf(result[category][k])
         /\ \A j, k \in DOMAIN result[category] :
              result[category][j] = result[category][k] => j = k

C16_Witness ==
    /\ Extracted
    /\ args.text = <<"S","e","n","i","o","r"," ","j","a","v","a","s","c","r","i","p","t",","," ","J","S"," ","a","n","d"," ","N","o","d","e">>
    /\ result = [programming_languages |-> << <<"j","a","v","a","s","c","r","i","p","t">> >>]

---------------------------------------------------------------------------
(* Properties of the application under interleaved sessions (SpecApp) *)

\* C14: the results a session obtains are those of the analysis run alone
\* under the thresholds its own sliders show, whatever the other sessions
\* did in between.
C14_SessionsDoNotInterfere ==
    (op = "run_analysis" /\ ~result.none) =>
       \E analysis \in AppAnalyses :
          LET alone == run_analysis(
                  NewScoringEngine(
                     [HIRE_THRESHOLD |-> widgets[args.session].hire_threshold,
                      STRONG_HIRE_THRESHOLD |->
                          widgets[args.session].strong_hire_threshold]),
                  analysis)
          IN  /\ result.skill_matching = alone.skill_matching
              /\ result.scoring = alone.scoring

---------------------------------------------------------------------------
(* Properties of the experience and education scores (SpecScore) *)

ExperienceScored == op = "calculate_experience_score" /\ ~result.error

\* the work history the experience score reads
WorkHistory ==
    Lower(PyStr(Get(args.resume_data.work_experience, Str(<<>>))))

RECURSIVE MaxOf(_)
\* the largest number of a sequence of digit strings, 0 when it is empty
MaxOf(mentions) ==
    IF mentions = <<>> THEN 0
    ELSE IF ToInt(Head(mentions)) > MaxOf(Tail(mentions))
         THEN ToInt(Head(mentions)) ELSE MaxOf(Tail(mentions))

\* the score the thresholds give to a number of years
ScoreForYears(years) ==
    IF years >= 10 THEN 100 ELSE IF years >= 7 THEN 90
    ELSE IF years >= 5 THEN 80 ELSE IF years >= 3 THEN 70
    ELSE IF years >= 1 THEN 60 ELSE 30

\* C17: when the work history holds no year range, the years sub-score is
\* the score of the largest "<N> years" / "<N>+ years" mention, whatever
\* the number of digits of N.
C17_LargestYearsMention ==
    ( /\ ExperienceScored
      /\ FindAll(2, WorkHistory, 1) = <<>>
      /\ FindAll(3, WorkHistory, 1) = <<>> )
    => result.years_of_experience
         = PyInt(ScoreForYears(MaxOf(FindAll(1, WorkHistory, 1))))

\* the year that stands for "present" (scoring_engine.py line 249)
PresentYear == 2024

RECURSIVE SumOfRanges(_)
\* the sum of end - start over a sequence of <<start, end>> pairs
SumOfRanges(ranges) ==
    IF ranges = <<>> THEN 0
    ELSE ToInt(Head(ranges)[2]) - ToInt(Head(ranges)[1])
         + SumOfRanges(Tail(ranges))

RECURSIVE SumToPresent(_)
\* the sum of present - start over a sequence of start years
SumToPresent(starts) ==
    IF starts = <<>> THEN 0
    ELSE PresentYear - ToInt(Head(starts)) + SumToPresent(Tail(starts))

\* C18: when the work history holds no "<N> years" mention, the years
\* sub-score is the score of the sum of end - start over its "<Y1>-<Y2>"
\* and "<Y1>-present" ranges; a history made of "<Y1>-present" ranges that
\* began at least a year ago scores at least 60.
C18_RangesSummed ==
    ( /\ ExperienceScored
      /\ FindAll(1, WorkHistory, 1) = <<>> )
    => /\ result.years_of_experience
            = PyInt(ScoreForYears(SumOfRanges(FindAll(2, WorkHistory, 1))
                                  + SumToPresent(FindAll(3, WorkHistory, 1))))
       /\ ( /\ FindAll(3, WorkHistory, 1) # <<>>
            /\ \A k \in DOMAIN FindAll(3, WorkHistory, 1) :
                  ToInt(FindAll(3, WorkHistory, 1)[k]) < PresentYear )
          => Ge(result.years_of_experience, PyInt(60))

\* the seniority keywords
SeniorityKeywords ==
    { <<"p","r","o","m","o","t","e","d">>, <<"s","e","n","i","o","r">>, <<"l","e","a","d">>, <<"m","a","n","a","g","e","r">>, <<"d","i","r","e","c","t","o","r">>,
      <<"p","r","i","n","c","i","p","a","l">>, <<"a","r","c","h","i","t","e","c","t">>, <<"h","e","a","d"," ","o","f">>, <<"c","h","i","e","f">> }

\* C19: a call that completes without an error (resume_data is a dict)
\* returns role_relevance 75 and industry_match 70, career_progression
\* min(100, 50 + 10 x the number of seniority keywords found in the work
\* history) and total_score 0.3 years + 0.4 role_relevance
\* + 0.2 industry_match + 0.1 career_progression; a call that fails
\* (resume_data is no dict) returns all of them at 0 with an error.
C19_ExperienceFormula ==
    op = "calculate_experience_score" =>
      /\ result.error <=> args.resume_data.shape # "dict"
      /\ result.error =>
           /\ result.role_relevance = PyInt(0)
           /\ result.industry_match = PyInt(0)
           /\ result.career_progression = PyInt(0)
           /\ result.total_score = PyInt(0)
      /\ ~result.error =>
           LET found == Cardinality({w \in SeniorityKeywords : Contains(WorkHistory, w)})
               progression == IF 50 + 10 * found > 100 THEN 100 ELSE 50 + 10 * found
           IN  /\ result.role_relevance = PyInt(75)
               /\ result.industry_match = PyInt(70)
               /\ result.career_progression = PyInt(progression)
               /\ \E years \in {30, 60, 70, 80, 90, 100} :
                    /\ result.years_of_experience = PyInt(years)
                    /\ result.total_score =
                         Num(3 * years + 4 * 75 + 2 * 70 + progression, 10)

\* C19 as stated: role_relevance is 75 and industry_match 70 for every
\* input, with the progression and the total of the formula.
C19_ConstantsForEveryInput ==
    op = "calculate_experience_score" =>
      /\ result.role_relevance = PyInt(75)
      /\ result.industry_match = PyInt(70)
      /\ LET found == Cardinality({w \in SeniorityKeywords : Contains(WorkHistory, w)})
             progression == IF 50 + 10 * found > 100 THEN 100 ELSE 50 + 10 * found
         IN  /\ result.career_progression = PyInt(progression)
             /\ \E years \in {30, 60, 70, 80, 90, 100} :
                  result.total_score =
                      Num(3 * years + 4 * 75 + 2 * 70 + progression, 10)

C19_Witness ==
    /\ ExperienceScored
    /\ args.resume_data.work_experience = Str(<<"8"," ","y","e","a","r","s",","," ","p","r","o","m","o","t","e","d"," ","t","o"," ","m","a","n","a","g","e","r">>)
    /\ result.years_of_experience = PyInt(90)
    /\ result.career_progression = PyInt(70)
    /\ result.total_score = PyInt(78)

\* the rank of the highest degree a text names, 0 when it names none
DegreeRank(text) ==
    IF Contains(text, <<"p","h","d">>) \/ Contains(text, <<"d","o","c","t","o","r","a","t","e">>) THEN 4
    ELSE IF Contains(text, <<"m","a","s","t","e","r">>) THEN 3
    ELSE IF Contains(text, <<"b","a","c","h","e","l","o","r">>) THEN 2
    ELSE IF Contains(text, <<"a","s","s","o","c","i","a","t","e">>) THEN 1
    ELSE 0

\* C20: degree_match is 80 when the job text names no degree, else 30 when
\* the candidate text names none, else 100 when the candidate's highest
\* degree ranks at least as high as the job's, 70 when it ranks one below,
\* 40 otherwise (associate 1, bachelor 2, master 3, doctorate and phd 4).
C20_DegreeMatch ==
    (op = "calculate_education_score" /\ ~result.error) =>
      LET candidate == DegreeRank(
              Lower(PyStr(Get(args.resume_data.education, Str(<<>>)))))
          required == DegreeRank(
              Lower(PyStr(Get(args.jd_data.educational_requirements, Str(<<>>)))))
      IN  result.degree_match =
            PyInt(IF required = 0 THEN 80
                  ELSE IF candidate = 0 THEN 30
                  ELSE IF candidate >= required THEN 100
                  ELSE IF candidate = required - 1 THEN 70
                  ELSE 40)

C20_Witness ==
    /\ op = "calculate_education_score"
    /\ ~result.error
    /\ args.resume_data.education = Str(<<"A","s","s","o","c","i","a","t","e",","," ","t","h","e","n"," ","B","a","c","h","e","l","o","r",","," ","t","h","e","n"," ","M","a","s","t","e","r">>)
    /\ args.jd_data.educational_requirements = Str(<<"P","h","D"," ","o","r"," ","d","o","c","t","o","r","a","t","e">>)
    /\ result.degree_match = PyInt(70)

---------------------------------------------------------------------------
(* Properties of calculate_overall_score (SpecScore) *)

OverallScored == op = "calculate_overall_score" /\ ~result.raised

\* the number of achievement keywords the achievements text of the call holds
KeywordsFound ==
    Cardinality({k \in DOMAIN achievement_indicators :
                   Contains(Lower(PyStr(Get(args.resume_data.achievements,
                                            Str(<<>>)))),
                            achievement_indicators[k])})

\* the total a breakdown contributes: its total_score, 0 when it has none
Contribution(breakdown) ==
    IF breakdown.total_score.t = "absent" THEN PyInt(0)
    ELSE breakdown.total_score

\* 0.35 skills + 0.30 experience + 0.15 education + 0.10 achievements of the
\* call, nothing for cultural_fit and no division by the sum of the weights
WeightedSum ==
    Add(Add(Add(Mul(Contribution(args.skills_score), Num(35, 100)),
                Mul(Contribution(args.experience_score), Num(30, 100))),
            Mul(Contribution(args.education_score), Num(15, 100))),
        Mul(result.component_scores.achievements, Num(10, 100)))

\* C21: achievements = min(100, 50 + 8 x keywords found); the weighted sum
\* 0.35 skills + 0.30 experience + 0.15 education + 0.10 achievements, a
\* breakdown without total_score counting 0, is the score the
\* recommendation carries, and overall_score is that sum rounded to two
\* decimals (a multiple of 0.01 within 0.005 of it).
C21_OverallFormula ==
    OverallScored =>
      /\ result.component_scores.achievements =
           (IF 50 + 8 * KeywordsFound > 100 THEN PyInt(100)
            ELSE PyInt(50 + 8 * KeywordsFound))
      /\ result.recommendation.score = WeightedSum
      /\ Near(result.overall_score, WeightedSum)
      /\ TwoDecimals(result.overall_score)

\* C21 as stated: overall_score is exactly the weighted sum.
C21_OverallIsExactWeightedSum ==
    OverallScored => result.overall_score = WeightedSum

C21_Witness ==
    /\ OverallScored
    /\ args.skills_score.total_score.t = "absent"
    /\ args.experience_score.total_score = PyInt(80)
    /\ args.education_score.total_score = Num(3998, 100)
    /\ KeywordsFound = 7
    /\ result.component_scores.achievements = PyInt(100)
    /\ result.recommendation.score = Num(39997, 1000)
    /\ result.overall_score = PyInt(40)

\* C22: risk_factors holds the skill-gaps entry exactly when the skills
\* total is below 60, the limited-experience entry exactly when the
\* experience total is below 50 and the education-concerns entry exactly
\* when the education total is below 40; strengths holds the label of each
\* of the skills, experience and education totals that is at least 80;
\* neither holds anything else: achievements, the fourth component of
\* component_scores, has no label.
C22_RisksAndStrengths ==
    OverallScored =>
      LET totals == result.component_scores
      IN  /\ "Significant technical skill gaps" \in result.risk_factors
               <=> Lt(totals.skills, PyInt(60))
          /\ "Limited relevant experience" \in result.risk_factors
               <=> Lt(totals.experience, PyInt(50))
          /\ "Educational background concerns" \in result.risk_factors
               <=> Lt(totals.education, PyInt(40))
          /\ result.risk_factors \subseteq
               {"Significant technical skill gaps",
                "Limited relevant experience",
                "Educational background concerns"}
          /\ "Strong technical skills" \in result.strengths
               <=> Ge(totals.skills, PyInt(80))
          /\ "Extensive relevant experience" \in result.strengths
               <=> Ge(totals.experience, PyInt(80))
          /\ "Strong educational background" \in result.strengths
               <=> Ge(totals.education, PyInt(80))
          /\ result.strengths \subseteq
               {"Strong technical skills", "Extensive relevant experience",
                "Strong educational background"}

\* C22 as stated: strengths holds one label for every component listed in
\* component_scores that is at least 80, and none for a component below.
C22_EveryComponentLabelled ==
    OverallScored =>
      LET totals == result.component_scores
      IN  /\ "Significant technical skill gaps" \in result.risk_factors
               <=> Lt(totals.skills, PyInt(60))
          /\ "Limited relevant experience" \in result.risk_factors
               <=> Lt(totals.experience, PyInt(50))
          /\ "Educational background concerns" \in result.risk_factors
               <=> Lt(totals.education, PyInt(40))
          /\ Cardinality(result.strengths)
               = Cardinality({c \in DOMAIN totals : Ge(totals[c], PyInt(80))})

C22_Witness ==
    /\ OverallScored
    /\ result.component_scores.skills = PyInt(60)
    /\ result.component_scores.experience = PyInt(80)
    /\ result.component_scores.education = Num(3998, 100)
    /\ result.component_scores.achievements = PyInt(100)
    /\ result.risk_factors = {"Educational background concerns"}
    /\ result.strengths = {"Extensive relevant experience"}

\* C23: with variance the distance between the skills total and the
\* experience total and overall the weighted sum, decision_confidence is
\* High when variance < 20 and overall is above 80 or below 40, else Medium
\* when variance < 30, else Low.
C23_DecisionConfidence ==
    OverallScored =>
      LET skills_total == result.component_scores.skills
          experience_total == result.component_scores.experience
          variance == IF Ge(skills_total, experience_total)
                      THEN Sub(skills_total, experience_total)
                      ELSE Sub(experience_total, skills_total)
          overall == result.recommendation.score
      IN  result.decision_confidence =
            CASE Lt(variance, PyInt(20))
                   /\ (Gt(overall, PyInt(80)) \/ Lt(overall, PyInt(40)))
                     -> "High"
              [] Lt(variance, PyInt(20))
                   /\ ~(Gt(overall, PyInt(80)) \/ Lt(overall, PyInt(40)))
                     -> "Medium"
              [] Ge(variance, PyInt(20)) /\ Lt(variance, PyInt(30)) -> "Medium"
              [] Ge(variance, PyInt(30)) -> "Low"

C23_Witness ==
    /\ OverallScored
    /\ result.component_scores.skills = PyInt(100)
    /\ result.component_scores.experience = PyInt(80)
    /\ Gt(result.recommendation.score, PyInt(80))
    /\ result.decision_confidence = "Medium"

\* C29: the decision is the one the thresholds assign to the reported
\* overall_score: at or above the strong-hire threshold it is 'Strong Hire',
\* at or above the hire threshold 'Hire' or 'Strong Hire', and at or above
\* 50 it is not "Don't Hire".
C29_DecisionMatchesReportedScore ==
    OverallScored =>
      /\ Ge(result.overall_score, PyInt(engine.strong_hire_threshold))
           => result.recommendation.decision = "Strong Hire"
      /\ Ge(result.overall_score, PyInt(engine.hire_threshold))
           => result.recommendation.decision \in {"Hire", "Strong Hire"}
      /\ Ge(result.overall_score, PyInt(50))
           => result.recommendation.decision # "Don't Hire"

---------------------------------------------------------------------------
(* The partition made by calculate_skill_match_score (checked under
   SpecMatch) *)

\* the (category, skill) pairs reported missing
MissingPairs ==
    {p \in Categories \X AllSkills :
        /\ p[1] \in DOMAIN match_result.missing_skills
        /\ p[2] \in match_result.missing_skills[p[1]]}

\* C25: in every match result, exact_matches and missing_skills of each
\* reported category are disjoint and together make up the required set of
\* the category, total_matched plus the number of missing skills is
\* total_required, and 0 <= total_matched <= total_required; lists with
\* repeated skills included.
C25_MatchPartition ==
    Matched =>
      /\ DOMAIN match_result.exact_matches = DOMAIN match_result.category_scores
      /\ DOMAIN match_result.missing_skills = DOMAIN match_result.category_scores
      /\ \A c \in DOMAIN match_result.category_scores :
           /\ match_result.exact_matches[c] \cap match_result.missing_skills[c] = {}
           /\ match_result.exact_matches[c] \cup match_result.missing_skills[c]
                = RequiredSet(c)
      /\ match_result.total_matched + Cardinality(MissingPairs)
           = match_result.total_required
      /\ 0 <= match_result.total_matched
      /\ match_result.total_matched <= match_result.total_required

C25_Witness ==
    /\ Matched
    /\ \E c, d \in DOMAIN match_result.category_scores :
         /\ Len(required_skills[c]) > Cardinality(RequiredSet(c))
         /\ match_result.exact_matches[c] = RequiredSet(c)
         /\ match_result.missing_skills[c] = {}
         /\ Cardinality(match_result.missing_skills[d]) = 1
         /\ Cardinality(match_result.exact_matches[d]) = 1
    /\ match_result.total_matched = 2
    /\ match_result.total_required = 3

MatchScored == subject = "matcher" /\ op = "calculate_skills_score"

\* 0.7 x overall match + 0.3 x skill_depth
Blend == Add(Mul(match_result.overall_score, Num(7, 10)),
             Mul(result.skill_depth, Num(3, 10)))

\* C26: scoring a match result gives technical_skills = skill_relevance =
\* matched / required x 100 when total_required > 0, and total_score is
\* 0.7 x overall match + 0.3 x skill_depth rounded to two decimals; when
\* total_required = 0 the two sub-scores are 0 and 50 and total_score is 27.
C26_SkillsScoreOfMatch ==
    MatchScored =>
      /\ ~result.error
      /\ match_result.total_required > 0 =>
           /\ result.technical_skills =
                Share(match_result.total_matched, match_result.total_required)
           /\ result.skill_relevance = result.technical_skills
           /\ Near(result.total_score, Blend)
           /\ TwoDecimals(result.total_score)
      /\ match_result.total_required = 0 =>
           /\ result.technical_skills = PyInt(0)
           /\ result.skill_relevance = PyInt(50)
           /\ result.total_score = PyInt(27)

\* C26 as stated: total_score is exactly 0.7 x overall match
\* + 0.3 x skill_depth whenever a skill is required.
C26_TotalIsExactBlend ==
    (MatchScored /\ match_result.total_required > 0) =>
        result.total_score = Blend

C26_Witness ==
    /\ MatchScored
    /\ match_result.total_required = 3
    /\ match_result.total_matched = 1
    /\ result.technical_skills = Share(1, 3)
    /\ result.skill_relevance = Share(1, 3)
    /\ result.skill_depth = PyInt(40)
    /\ result.total_score = Num(3533, 100)

---------------------------------------------------------------------------
(* Properties of a caller's sequence of calls (checked under SpecRequest) *)

\* C24: no call of extract_skills_from_text, calculate_skill_match_score or
\* a calculate_*_score method, in any order and however often, changes
\* anything but its return value: the matcher's tables and the engine's
\* weights and thresholds are those of construction, the texts and
\* analyses of the caller stay as they were, the call received what the
\* caller holds, and every map, match result or breakdown obtained from an
\* earlier call is still the value that call returned for the arguments
\* the caller holds.
C24_CoreOperationsFrame ==
    /\ [](subject = "request" =>
            /\ matcher = NewSkillMatcher
            /\ engine = NewScoringEngine(DefaultConfig)
            /\ (267 \in request.made =>
                  candidate_skills
                    = extract_skills_from_text(NewSkillMatcher, request.resume_text))
            /\ (268 \in request.made =>
                  required_skills
                    = extract_skills_from_text(NewSkillMatcher, request.jd_text))
            /\ (269 \in request.made =>
                  match_result
                    = calculate_skill_match_score(candidate_skills, required_skills))
            /\ (276 \in request.made =>
                  request.skills_score
                    = calculate_skills_score(AsSkillAnalysis(match_result)))
            /\ (277 \in request.made =>
                  request.experience_score
                    = calculate_experience_score(EmptyDict, request.resume_analysis))
            /\ (281 \in request.made =>
                  request.education_score
                    = calculate_education_score(request.resume_analysis,
                                                request.jd_analysis)))
    /\ [][subject = "request" =>
            /\ matcher' = matcher
            /\ engine' = engine
            /\ Config' = Config
            /\ request'.resume_text = request.resume_text
            /\ request'.jd_text = request.jd_text
            /\ request'.resume_analysis = request.resume_analysis
            /\ request'.jd_analysis = request.jd_analysis
            /\ (267 \in request.made => candidate_skills' = candidate_skills)
            /\ (268 \in request.made => required_skills' = required_skills)
            /\ (269 \in request.made => match_result' = match_result)
            /\ (276 \in request.made =>
                  request'.skills_score = request.skills_score)
            /\ (277 \in request.made =>
                  request'.experience_score = request.experience_score)
            /\ (281 \in request.made =>
                  request'.education_score = request.education_score)
            /\ (op' = "extract_skills_from_text" =>
                  args'.text \in {request'.resume_text, request'.jd_text})
            /\ (op' = "calculate_skill_match_score" =>
                  /\ args'.candidate_skills = candidate_skills'
                  /\ args'.required_skills = required_skills')
            /\ (op' = "calculate_skills_score" =>
                  args'.skill_analysis = AsSkillAnalysis(match_result'))
            /\ (op' \in {"calculate_experience_score",
                        "calculate_education_score",
                        "calculate_overall_score"} =>
                  args'.resume_data = request'.resume_analysis)
            /\ (op' = "calculate_overall_score" =>
                  /\ args'.skills_score = AsBreakdown(request'.skills_score)
                  /\ args'.experience_score
                       = AsBreakdown(request'.experience_score)
                  /\ args'.education_score
                       = AsBreakdown(request'.education_score))]_vars

\* every call was made, and a text was extracted again after the overall
\* score was computed
C24_Witness ==
    /\ subject = "request"
    /\ request.caller = "any"
    /\ request.made = {267, 268, 269, 276, 277, 281, 286}
    /\ op = "extract_skills_from_text"
    /\ args.text = request.jd_text
    /\ matcher = NewSkillMatcher
    /\ DOMAIN candidate_skills # {}
    /\ DOMAIN required_skills # {}
    /\ match_result.total_required > 0
    /\ ~request.skills_score.error
    /\ ~request.experience_score.error
    /\ ~request.education_score.error

---------------------------------------------------------------------------
(* The range of the experience score (checked under SpecCore: the engine
   on its own, and the engine called by a caller that chains the calls) *)

\* C27: a call of calculate_experience_score that sets no error returns a
\* total between 58 and 84; so in a request the risk factor 'Limited
\* relevant experience' is reported only when the experience breakdown
\* scored carries an error.
C27_ExperienceRange ==
    /\ (op = "calculate_experience_score" /\ ~result.error) =>
          /\ Ge(result.total_score, PyInt(58))
          /\ Le(result.total_score, PyInt(84))
    /\ (subject = "request" /\ op = "calculate_overall_score" /\ ~result.raised) =>
          /\ args.experience_score = AsBreakdown(request.experience_score)
          /\ "Limited relevant experience" \in result.risk_factors
               => request.experience_score.error

C27_Witness ==
    /\ subject = "request"
    /\ op = "calculate_overall_score"
    /\ ~result.raised
    /\ ~request.experience_score.error
    /\ request.experience_score.total_score = PyInt(58)
    /\ result.component_scores.experience = PyInt(58)
    /\ "Limited relevant experience" \notin result.risk_factors

---------------------------------------------------------------------------
(* The ceiling of the overall score of chained calls (checked under
   SpecRequest) *)

RequestScored ==
    subject = "request" /\ op = "calculate_overall_score" /\ ~result.raised

\* C28: under the default thresholds, an overall score computed from the
\* breakdowns of calculate_skills_score, calculate_experience_score and
\* calculate_education_score is at most 83.55 (skills at most 97,
\* experience at most 84, education at most 96, achievements at most 100),
\* and the decision is never 'Strong Hire'.
C28_NeverStrongHire ==
    RequestScored =>
      /\ engine.hire_threshold = 70
      /\ engine.strong_hire_threshold = 85
      /\ Le(result.component_scores.skills, PyInt(97))
      /\ Le(result.component_scores.experience, PyInt(84))
      /\ Le(result.component_scores.education, PyInt(96))
      /\ Le(result.component_scores.achievements, PyInt(100))
      /\ Le(result.overall_score, Num(8355, 100))
      /\ Le(result.recommendation.score, Num(8355, 100))
      /\ result.recommendation.decision # "Strong Hire"

C28_Witness ==
    /\ RequestScored
    /\ result.component_scores.skills = PyInt(97)
    /\ result.component_scores.experience = PyInt(84)
    /\ result.component_scores.education = PyInt(96)
    /\ result.component_scores.achievements = PyInt(100)
    /\ result.overall_score = Num(8355, 100)
    /\ result.recommendation.decision = "Hire"

---------------------------------------------------------------------------
(* The two session flags (checked under SpecApp) *)

\* C30: through every run of the script, analysis_complete is true only
\* in a session whose analysis_results holds a result; an analysis that
\* fails (no API connection, an error result, an exception) leaves the
\* session state as it was, and 'Run New Analysis' sets analysis_complete
\* to false and analysis_results to None.
C30_SessionFlags ==
    [][subject = "app" =>
         /\ \A s \in Sessions :
              session_state'[s].analysis_complete
                => session_state'[s].analysis_results # None
         /\ (\/ op' \in {"render_analysis_section", "run_analysis_failed"}
             \/ (op' = "run_analysis" /\ result' = None))
              => session_state' = session_state
         /\ op' = "run_new_analysis" =>
              /\ session_state[args'.session].analysis_complete
              /\ ~session_state'[args'.session].analysis_complete
              /\ session_state'[args'.session].analysis_results = None
              /\ \A s \in Sessions \ {args'.session} :
                   session_state'[s] = session_state[s]]_vars

C30_Witness ==
    /\ subject = "app"
    /\ op = "run_new_analysis"
    /\ session_state[args.session] = NewSessionState
    /\ \E s \in Sessions :
         /\ session_state[s].analysis_complete
         /\ session_state[s].analysis_results # None
         /\ session_state[s].analysis_results.scoring.overall.recommendation.decision
              \in {"Hire", "Maybe", "Don't Hire"}

=============================================================================
